---- MODULE Spec2Model ----
(***************************************************************************)
(* The Circuit pallet (pallets/circuit/src/lib.rs): the Xtx lifecycle      *)
(* engine.  Every dispatchable and hook is one action; setup, validate,    *)
(* square_up, update, apply, confirm and kill are operators over a         *)
(* LocalXtxCtx record and a record of the storage maps.                    *)
(*                                                                         *)
(* Option<T> is a sequence of length at most one: None is <<>>, Some(x)    *)
(* is <<x>>.  A hash is modelled by the value it is taken of, so an SFX    *)
(* id is the SideEffect record itself.  A Result is the string "Ok" or     *)
(* "Err"; "Panic" is an unwrap/expect/index panic and "Hang" a loop that   *)
(* does not end; neither of the two commits any write.                     *)
(***************************************************************************)
EXTENDS Integers, Sequences, FiniteSets, TLC

\* ---------------------------------------------------------------- bounds
MaxXtx == 2
MaxBundle == 2
MaxBlock == 4
MaxLen == 4
MaxQueued == 1
MaxBlockT == 6
MaxSent == 2
MaxSlashed == 2
MaxEnqueued == 3

\* ------------------------------------------- configuration (pallet::Config)
XtxTimeoutDefault == 2
XtxTimeoutCheckInterval == 2
DeletionQueueLimit == 1
SignalQueueDepth == 4

\* ---------------------------------------------------------------- Option
None == <<>>
Some(x) == <<x>>
IsSome(o) == o /= <<>>
IsNone(o) == o = <<>>
Unwrap(o) == o[1]

\* ------------------------------------------------------------ the inputs
XtxIds == 1..MaxXtx
Executors == {"alice", "bob"}
GatewayIds == {"gate", "pdot", "test", "miss"}

\* gateways known to the name service, by gateway type; "unkn" has no record
GatewayType(target) ==
    CASE target = "intl" -> "ProgrammableInternal"
      [] target = "circ" -> "OnCircuit"
      [] target = "extl" -> "ProgrammableExternal"
      [] OTHER -> "Unknown"

SfxE == [target |-> "intl", prize |-> 1, insurance |-> None]
SfxO == [target |-> "extl", prize |-> 1, insurance |-> Some(<<2, 1>>)]
SfxD == [target |-> "extl", prize |-> 0, insurance |-> None]
SfxX == [target |-> "unkn", prize |-> 1, insurance |-> None]
SfxM == [target |-> "extl", prize |-> 1, insurance |-> Some(<<2, 3>>)]
SfxC == [target |-> "circ", prize |-> 1, insurance |-> None]
SfxD2 == [target |-> "extl", prize |-> 1, insurance |-> None]

\* the side effects the storage maps are keyed by
SideEffects == {SfxE, SfxO, SfxD, SfxX, SfxD2}
\* the side effects of the validation specification
AllSideEffects == {SfxE, SfxO, SfxD, SfxX, SfxM, SfxC, SfxD2}

SeqsUpTo(S, n) == UNION {[1..k -> S] : k \in 0..n}
\* the bundles submitted: the valid ones and one that validate rejects
Bundles == SeqsUpTo({SfxE, SfxO, SfxD}, MaxBundle) \cup {<<SfxX>>}

\* ------------------------------------------------- SecurityLvl (ordered)
SecurityLvlRank(lvl) ==
    CASE lvl = "Dirty" -> 0
      [] lvl = "Optimistic" -> 1
      [] lvl = "Escrowed" -> 2

\* ----------------------------------------------- CircuitStatus (ordered)
StatusRank(s) ==
    CASE s = "Requested" -> 0
      [] s = "PendingInsurance" -> 1
      [] s = "Bonded" -> 2
      [] s = "Ready" -> 3
      [] s = "PendingExecution" -> 4
      [] s = "Finished" -> 5
      [] s = "FinishedAllSteps" -> 6
      [] s = "RevertTimedOut" -> 7
      [] s = "RevertKill" -> 8
      [] s = "RevertMisbehaviour" -> 9
      [] s = "Reverted" -> 10

RevertFamily == {"RevertTimedOut", "RevertKill", "RevertMisbehaviour", "Reverted"}
TerminalStatuses == RevertFamily \cup {"FinishedAllSteps"}

\* ------------------------------------------------------------- validate
generate_id(side_effect) == side_effect

check_if_insurance_required(side_effect) == side_effect.insurance

\* a slip: the on-circuit gateways are left out
determine_dirty_vs_escrowed_lvl_InternalOnly(side_effect) ==
    IF GatewayType(side_effect.target) = "ProgrammableInternal"
    THEN "Escrowed"
    ELSE "Dirty"

determine_dirty_vs_escrowed_lvl(side_effect) ==
    IF GatewayType(side_effect.target) \in {"ProgrammableInternal", "OnCircuit"}
    THEN "Escrowed"
    ELSE "Dirty"

\* the FullSideEffect validate builds for one side effect
NewFullSideEffect(side_effect) ==
    [input |-> side_effect,
     confirmed |-> None,
     security_lvl |-> IF IsSome(check_if_insurance_required(side_effect))
                      THEN "Optimistic"
                      ELSE determine_dirty_vs_escrowed_lvl(side_effect)]

\* the per-SFX checks of validate that return an error
ValidateSfxOk(side_effect) ==
    /\ GatewayType(side_effect.target) /= "Unknown"
    /\ IsSome(side_effect.insurance) => side_effect.prize = side_effect.insurance[1][2]

\* a slip: an unstable sort, x goes in front of the elements of its own level
InsertSorted_Unstable(sorted, x) ==
    LET keep == {i \in 1..Len(sorted) :
                    SecurityLvlRank(sorted[i].security_lvl) > SecurityLvlRank(x.security_lvl)}
        k == Cardinality(keep)
    IN  SubSeq(sorted, 1, k) \o <<x>> \o SubSeq(sorted, k + 1, Len(sorted))

\* sort_by(|a, b| b.security_lvl.partial_cmp(&a.security_lvl)): a stable sort,
\* descending by security level; x goes behind every element that is not lower
InsertSorted(sorted, x) ==
    LET keep == {i \in 1..Len(sorted) :
                    SecurityLvlRank(sorted[i].security_lvl) >= SecurityLvlRank(x.security_lvl)}
        k == Cardinality(keep)
    IN  SubSeq(sorted, 1, k) \o <<x>> \o SubSeq(sorted, k + 1, Len(sorted))

RECURSIVE SortBySecurityLvl(_)
SortBySecurityLvl(fsxs) ==
    IF fsxs = <<>> THEN <<>>
    ELSE InsertSorted(SortBySecurityLvl(SubSeq(fsxs, 1, Len(fsxs) - 1)), fsxs[Len(fsxs)])

\* a slip: a Dirty FSX joins the current step like any other
PushToSteps_NeverSplits(steps, sorted_fse) ==
    [steps EXCEPT ![Len(steps)] = Append(steps[Len(steps)], sorted_fse)]

\* one turn of the partition loop over the sorted FSX
PushToSteps(steps, sorted_fse) ==
    LET current_step == steps[Len(steps)]
    IN  IF sorted_fse.security_lvl /= "Dirty" \/ current_step = <<>>
        THEN [steps EXCEPT ![Len(steps)] = Append(current_step, sorted_fse)]
        ELSE Append(steps, <<sorted_fse>>)

RECURSIVE PartitionSteps(_, _)
PartitionSteps(steps, sorted) ==
    IF sorted = <<>> THEN steps
    ELSE PartitionSteps(PushToSteps(steps, Head(sorted)), Tail(sorted))

\* the insurance deposits validate pushes, in submission order
RECURSIVE NewInsuranceDeposits(_)
NewInsuranceDeposits(side_effects) ==
    IF side_effects = <<>> THEN <<>>
    ELSE LET se == Head(side_effects)
             rest == NewInsuranceDeposits(Tail(side_effects))
         IN  IF IsSome(check_if_insurance_required(se))
             THEN << <<generate_id(se),
                       [insurance |-> se.insurance[1][1],
                        reward |-> se.insurance[1][2],
                        bonded_relayer |-> None,
                        slashed |-> FALSE]>> >> \o rest
             ELSE rest

ValidatedSteps(side_effects) ==
    PartitionSteps(<< <<>> >>,
        SortBySecurityLvl([i \in 1..Len(side_effects) |-> NewFullSideEffect(side_effects[i])]))

validate(side_effects, local_ctx) ==
    IF \E i \in 1..Len(side_effects) : ~ValidateSfxOk(side_effects[i])
    THEN [res |-> "Err", ctx |-> local_ctx]
    ELSE [res |-> "Ok",
          ctx |-> [local_ctx EXCEPT
                     !.insurance_deposits = @ \o NewInsuranceDeposits(side_effects),
                     !.full_side_effects = ValidatedSteps(side_effects)]]

\* ------------------------------------------------------------- the state
VARIABLES
    XExecSignals,                   \* xtx id -> Option<XExecSignal>
    FullSideEffects,                \* xtx id -> Option<Vec<Vec<FullSideEffect>>>
    LocalXtxStates,                 \* xtx id -> Option<LocalState>
    InsuranceDeposits,              \* xtx id -> sfx id -> Option<InsuranceDeposit>
    XtxInsuranceLinks,              \* xtx id -> Vec<sfx id> (ValueQuery)
    LocalSideEffectToXtxIdLinks,    \* sfx id -> Option<xtx id>
    ActiveXExecSignalsTimingLinks,  \* xtx id -> Option<block number>
    AccountManager,                 \* charge id -> the state of its charge
    XBIPortal,                      \* sfx id -> times it was dispatched over XBI
    Slashes,                        \* xtx id -> sfx id -> times its bond was slashed
    SignalQueue,                    \* BoundedVec<ExecutionSignal, SignalQueueDepth>
    now,                            \* frame_system block number
    last,                           \* the last call and what it returned
    vbundle,                        \* validation specification: the bundle
    vsteps,                         \* validation specification: validate's result
    enqueued,                       \* signal order: the queue, each signal numbered
    handled_order,                  \* signal order: the numbers, as handled
    XDNSRegistry,                   \* pallet-xdns: gateway id -> its record
    emit_args,                      \* events specification: what emit is called with
    events                          \* events specification: the events deposited

stores == <<XExecSignals, FullSideEffects, LocalXtxStates, InsuranceDeposits,
            XtxInsuranceLinks, LocalSideEffectToXtxIdLinks,
            ActiveXExecSignalsTimingLinks, AccountManager, XBIPortal, Slashes>>
vvars == <<vbundle, vsteps, enqueued, handled_order, XDNSRegistry,
          emit_args, events>>
vars == <<XExecSignals, FullSideEffects, LocalXtxStates, InsuranceDeposits,
          XtxInsuranceLinks, LocalSideEffectToXtxIdLinks,
          ActiveXExecSignalsTimingLinks, AccountManager, XBIPortal, Slashes, SignalQueue,
          now, last,
          vbundle, vsteps, enqueued, handled_order, XDNSRegistry,
          emit_args, events>>

\* the storage maps as one value, for the operators that read and write them
Store ==
    [xs |-> XExecSignals, fse |-> FullSideEffects, lxs |-> LocalXtxStates,
     ins |-> InsuranceDeposits, links |-> XtxInsuranceLinks,
     l2x |-> LocalSideEffectToXtxIdLinks, tl |-> ActiveXExecSignalsTimingLinks,
     am |-> AccountManager, xbi |-> XBIPortal, slashes |-> Slashes]

Commit(st) ==
    /\ XExecSignals' = st.xs
    /\ FullSideEffects' = st.fse
    /\ LocalXtxStates' = st.lxs
    /\ InsuranceDeposits' = st.ins
    /\ XtxInsuranceLinks' = st.links
    /\ LocalSideEffectToXtxIdLinks' = st.l2x
    /\ ActiveXExecSignalsTimingLinks' = st.tl
    /\ AccountManager' = st.am
    /\ XBIPortal' = st.xbi
    /\ Slashes' = st.slashes

\* ---------------------------------------------------------------- setup
setup_fresh(fresh_id, timeouts_at) ==
    [xtx_id |-> fresh_id,
     xtx |-> [status |-> "Requested", steps_cnt |-> <<0, 0>>, timeouts_at |-> timeouts_at]]

setup(st, current_status, maybe_xtx_id, fresh_id, block_number) ==
    IF current_status = "Requested"
    THEN IF IsSome(maybe_xtx_id) /\ IsSome(st.xs[Unwrap(maybe_xtx_id)])
         THEN [res |-> "Err", ctx |-> <<>>]
         ELSE LET fresh == setup_fresh(fresh_id, XtxTimeoutDefault + block_number)
              IN  [res |-> "Ok",
                   ctx |-> [xtx_id |-> fresh.xtx_id,
                            xtx |-> fresh.xtx,
                            local_state |-> "LocalState",
                            insurance_deposits |-> <<>>,
                            full_side_effects |-> <<>>]]
    ELSE IF IsNone(maybe_xtx_id) THEN [res |-> "Err", ctx |-> <<>>]
    ELSE LET id == Unwrap(maybe_xtx_id) IN
         IF IsNone(st.xs[id]) THEN [res |-> "Err", ctx |-> <<>>]
         ELSE IF current_status = "Finished"
                 /\ StatusRank(Unwrap(st.xs[id]).status) < StatusRank("Finished")
         THEN [res |-> "Err", ctx |-> <<>>]
         ELSE IF \E i \in 1..Len(st.links[id]) : IsNone(st.ins[id][st.links[id][i]])
         THEN [res |-> "Panic", ctx |-> <<>>]
         ELSE IF IsNone(st.fse[id]) \/ IsNone(st.lxs[id])
         THEN [res |-> "Err", ctx |-> <<>>]
         ELSE [res |-> "Ok",
               ctx |-> [xtx_id |-> id,
                        xtx |-> Unwrap(st.xs[id]),
                        local_state |-> Unwrap(st.lxs[id]),
                        insurance_deposits |->
                            [i \in 1..Len(st.links[id]) |->
                                <<st.links[id][i], Unwrap(st.ins[id][st.links[id][i]])>>],
                        full_side_effects |-> Unwrap(st.fse[id])]]

\* ------------------------------------------------------- status algebra
determine_effects_insurance_status(insurance_deposits) ==
    IF \E i \in 1..Len(insurance_deposits) : IsNone(insurance_deposits[i][2].bonded_relayer)
    THEN "PendingInsurance"
    ELSE "Bonded"

\* a slip: one confirmation is taken for the whole step
StepAllConfirmed_One(step) == \E j \in 1..Len(step) : IsSome(step[j].confirmed)

StepAllConfirmed(step) == \A j \in 1..Len(step) : IsSome(step[j].confirmed)
StepAnyConfirmed(step) == \E j \in 1..Len(step) : IsSome(step[j].confirmed)

\* The reduction over (full_side_effects, insurance_deposits).  The rule on the
\* step cursor (cursor = total gives FinishedAllSteps) is applied by update,
\* which holds the cursor, before it calls the reduction.
determine_xtx_status(full_side_effects, insurance_deposits) ==
    LET open == {k \in 1..Len(full_side_effects) : ~StepAllConfirmed(full_side_effects[k])}
        current == CHOOSE k \in open : \A m \in open : k <= m
    IN  IF determine_effects_insurance_status(insurance_deposits) = "PendingInsurance"
        THEN "PendingInsurance"
        ELSE IF \A k \in 1..Len(full_side_effects) : ~StepAnyConfirmed(full_side_effects[k])
        THEN "Ready"
        ELSE IF open /= {} /\ StepAnyConfirmed(full_side_effects[current])
        THEN "PendingExecution"
        ELSE "Finished"

\* --------------------------------------------------------------- update
CurrentStepInBounds(local_ctx) ==
    local_ctx.xtx.steps_cnt[1] < Len(local_ctx.full_side_effects)

get_current_step_fsx(local_ctx) ==
    local_ctx.full_side_effects[local_ctx.xtx.steps_cnt[1] + 1]

\* the tail of update: the reduction decides the status
UpdateDetermined(local_ctx, current_status) ==
    LET new_status == determine_xtx_status(local_ctx.full_side_effects,
                                           local_ctx.insurance_deposits)
    IN  [res |-> "Ok",
         ctx |-> [local_ctx EXCEPT !.xtx.status = new_status],
         change |-> <<current_status, new_status>>]

update(local_ctx) ==
    LET current_status == local_ctx.xtx.status IN
    CASE current_status = "Requested" ->
            UpdateDetermined(
                [local_ctx EXCEPT !.xtx.steps_cnt = <<0, Len(local_ctx.full_side_effects)>>],
                current_status)
      [] current_status \in {"PendingInsurance", "Bonded"} ->
            UpdateDetermined(
                [local_ctx EXCEPT !.xtx.status =
                    determine_effects_insurance_status(local_ctx.insurance_deposits)],
                current_status)
      [] current_status \in {"Ready", "PendingExecution", "Finished"} ->
            IF ~CurrentStepInBounds(local_ctx)
            THEN [res |-> "Panic", ctx |-> local_ctx,
                  change |-> <<current_status, current_status>>]
            ELSE IF StepAllConfirmed(get_current_step_fsx(local_ctx))
            THEN LET stepped == [local_ctx EXCEPT
                                    !.xtx.steps_cnt = <<@[1] + 1, @[2]>>,
                                    !.xtx.status = "Finished"]
                 IN  IF stepped.xtx.steps_cnt[1] = stepped.xtx.steps_cnt[2]
                     THEN [res |-> "Ok",
                           ctx |-> [stepped EXCEPT !.xtx.status = "FinishedAllSteps"],
                           change |-> <<current_status, "FinishedAllSteps">>]
                     ELSE UpdateDetermined(stepped, current_status)
            ELSE UpdateDetermined(local_ctx, current_status)
      [] OTHER -> UpdateDetermined(local_ctx, current_status)

\* ------------------------------------------------------------ square_up
\* deposit_ok: whether the account manager accepts the deposits of this call
square_up(local_ctx, maybe_requester_charge, maybe_xbi_execution_charge, deposit_ok) ==
    LET status == local_ctx.xtx.status IN
    CASE status = "Requested" ->
            IF IsNone(maybe_requester_charge) THEN "Err"
            ELSE IF ~CurrentStepInBounds(local_ctx) THEN "Panic"
            ELSE IF ~deposit_ok
                    /\ \E j \in 1..Len(get_current_step_fsx(local_ctx)) :
                          get_current_step_fsx(local_ctx)[j].input.prize > 0
            THEN "Err"
            ELSE "Ok"
      [] status \in {"PendingExecution", "Ready"} ->
            IF IsNone(maybe_xbi_execution_charge) THEN "Err"
            ELSE IF ~deposit_ok THEN "Err"
            ELSE "Ok"
      [] status \in {"RevertTimedOut", "Reverted", "RevertMisbehaviour"} ->
            IF ~CurrentStepInBounds(local_ctx) THEN "Panic" ELSE "Ok"
      [] status \in {"Finished", "FinishedAllSteps"} ->
            IF ~CurrentStepInBounds(local_ctx) THEN "Panic"
            ELSE IF ~StepAllConfirmed(get_current_step_fsx(local_ctx)) THEN "Err"
            ELSE "Ok"
      [] OTHER -> "Ok"

\* the charge id of the XBI message of a side effect: the hash of the message
XbiChargeId(sfx_id) == [xbi |-> sfx_id]
ChargeIds == SideEffects \cup {XbiChargeId(sfx_id) : sfx_id \in SideEffects}

\* The charges after a square_up that returned Ok.  A charge is "Deposited"
\* by deposit, and is finalized as "Commit" or as "Revert"; the charge id of
\* a side effect is its id.
\* a slip: the side effects of every step are charged
CurrentStepIds_OfAllSteps(local_ctx) ==
    UNION {{generate_id(local_ctx.full_side_effects[k][j].input) :
               j \in 1..Len(local_ctx.full_side_effects[k])} :
              k \in 1..Len(local_ctx.full_side_effects)}

CurrentStepIds(local_ctx) ==
    {generate_id(get_current_step_fsx(local_ctx)[j].input) :
        j \in 1..Len(get_current_step_fsx(local_ctx))}

charges_after_square_up(am, local_ctx, maybe_xbi_execution_charge) ==
    LET status == local_ctx.xtx.status IN
    CASE status = "Requested" ->
            [charge_id \in DOMAIN am |->
                IF charge_id \in CurrentStepIds(local_ctx) /\ charge_id.prize > 0
                THEN "Deposited" ELSE am[charge_id]]
      [] status \in {"PendingExecution", "Ready"} ->
            [charge_id \in DOMAIN am |->
                IF charge_id = Unwrap(maybe_xbi_execution_charge)
                THEN "Deposited" ELSE am[charge_id]]
      [] status \in {"RevertTimedOut", "Reverted", "RevertMisbehaviour"} ->
            [charge_id \in DOMAIN am |->
                IF charge_id \in CurrentStepIds(local_ctx)
                THEN "Revert" ELSE am[charge_id]]
      [] status \in {"Finished", "FinishedAllSteps"} ->
            [charge_id \in DOMAIN am |->
                IF charge_id \in CurrentStepIds(local_ctx)
                THEN "Commit" ELSE am[charge_id]]
      [] OTHER -> am

\* ------------------------------------------------------------ try_slash
\* Optimistic::try_slash(local_ctx): on a revert status, each insurance
\* deposit of the context that is bonded and not slashed is slashed, and is
\* marked as slashed in the context.  pool counts, per deposit, the times its
\* bond went to the slashing pool (MaxSlashed stands for that many or more).
ToSlash(local_ctx) ==
    IF local_ctx.xtx.status \in RevertFamily
    THEN {i \in 1..Len(local_ctx.insurance_deposits) :
             /\ IsSome(local_ctx.insurance_deposits[i][2].bonded_relayer)
             /\ ~local_ctx.insurance_deposits[i][2].slashed}
    ELSE {}

try_slash(local_ctx, pool) ==
    [ctx |-> [local_ctx EXCEPT
                 !.insurance_deposits =
                     [i \in 1..Len(@) |->
                         IF i \in ToSlash(local_ctx)
                         THEN <<@[i][1], [@[i][2] EXCEPT !.slashed = TRUE]>>
                         ELSE @[i]]],
     pool |-> [pool EXCEPT ![local_ctx.xtx_id] =
                 [sfx_id \in DOMAIN @ |->
                     LET n == @[sfx_id]
                                + Cardinality({i \in ToSlash(local_ctx) :
                                                  local_ctx.insurance_deposits[i][1] = sfx_id})
                     IN  IF n > MaxSlashed THEN MaxSlashed ELSE n]]]

\* the try_slash of square_up's revert branch
try_slash_in_square_up(local_ctx, pool) ==
    IF local_ctx.xtx.status \in {"RevertTimedOut", "Reverted", "RevertMisbehaviour"}
    THEN try_slash(local_ctx, pool)
    ELSE [ctx |-> local_ctx, pool |-> pool]

\* ---------------------------------------------------------------- apply
is_local(gateway_id) ==
    gateway_id = "self" \/ GatewayType(gateway_id) = "ProgrammableInternal"

\* the ids of the locally executable side effects of a step vector
LocalSfxIds(full_side_effects) ==
    UNION {{generate_id(full_side_effects[k][j].input) : j \in 1..Len(full_side_effects[k])} :
              k \in 1..Len(full_side_effects)}
    \cap {se \in AllSideEffects : is_local(se.target)}

\* the insurance rows apply(Requested) inserts; a later entry of the same id
\* overwrites an earlier one
InsertedDeposit(insurance_deposits, sfx_id) ==
    LET at == {i \in 1..Len(insurance_deposits) : insurance_deposits[i][1] = sfx_id}
        i == CHOOSE i \in at : \A m \in at : m <= i
    IN  Some(insurance_deposits[i][2])

\* a slip: the link set is written before the ids are pushed to it
ids_with_insurance_Empty(insurance_deposits) == <<>>

\* the ids apply(Requested) pushes, one per insurance deposit of the context
ids_with_insurance(insurance_deposits) ==
    [i \in 1..Len(insurance_deposits) |-> insurance_deposits[i][1]]

\* a slip: the local state is left out of what apply(Requested) persists
inserted_local_state_None(local_ctx) == None

\* the row apply(Requested) inserts in LocalXtxStates
inserted_local_state(local_ctx) == Some(local_ctx.local_state)

apply(st, local_ctx, maybe_insurance_tuple, status_change) ==
    LET old_status == status_change[1]
        new_status == status_change[2]
        id == local_ctx.xtx_id
    IN
    CASE old_status = "Requested" ->
            [st EXCEPT
                !.fse[id] = Some(local_ctx.full_side_effects),
                !.l2x = [se \in DOMAIN st.l2x |->
                            IF se \in LocalSfxIds(local_ctx.full_side_effects)
                            THEN Some(id) ELSE st.l2x[se]],
                !.ins[id] = [se \in DOMAIN st.ins[id] |->
                            IF \E i \in 1..Len(local_ctx.insurance_deposits) :
                                  local_ctx.insurance_deposits[i][1] = se
                            THEN InsertedDeposit(local_ctx.insurance_deposits, se)
                            ELSE st.ins[id][se]],
                !.links[id] = ids_with_insurance(local_ctx.insurance_deposits),
                !.lxs[id] = inserted_local_state(local_ctx),
                !.tl[id] = Some(local_ctx.xtx.timeouts_at),
                !.xs[id] = Some(local_ctx.xtx)]
      [] old_status = "PendingInsurance" ->
            LET st1 == IF IsSome(maybe_insurance_tuple)
                       THEN [st EXCEPT !.ins[id][Unwrap(maybe_insurance_tuple)[1]] =
                                          Some(Unwrap(maybe_insurance_tuple)[2])]
                       ELSE st
            IN  IF old_status /= new_status
                THEN [st1 EXCEPT !.xs[id] = Some([local_ctx.xtx EXCEPT !.status = new_status])]
                ELSE st1
      [] old_status = "RevertTimedOut" ->
            [st EXCEPT !.xs[id] = Some(local_ctx.xtx), !.tl[id] = None]
      [] old_status \in {"Ready", "Bonded", "PendingExecution", "Finished"} ->
            [st EXCEPT !.fse[id] = Some(local_ctx.full_side_effects),
                       !.xs[id] = Some(local_ctx.xtx)]
      [] old_status = "FinishedAllSteps" ->
            [st EXCEPT !.xs[id] = Some(local_ctx.xtx), !.tl[id] = None]
      [] OTHER -> st

\* ----------------------------------------------------------------- emit
\* the lifecycle event of a status, if it has one
LifecycleEvent(xtx_id, status) ==
    CASE status = "PendingInsurance" -> <<[event |-> "XTransactionReceivedForExec", xtx_id |-> xtx_id]>>
      [] status = "Ready" -> <<[event |-> "XTransactionReadyForExec", xtx_id |-> xtx_id]>>
      [] status = "Finished" -> <<[event |-> "XTransactionStepFinishedExec", xtx_id |-> xtx_id]>>
      [] status = "FinishedAllSteps" ->
            <<[event |-> "XTransactionXtxFinishedExecAllSteps", xtx_id |-> xtx_id]>>
      [] status = "RevertTimedOut" ->
            <<[event |-> "XTransactionXtxRevertedAfterTimeOut", xtx_id |-> xtx_id]>>
      [] OTHER -> <<>>

\* a slip: the confirmed side effects are published at any status
PublishesConfirmed_Always(status) == TRUE

\* xtx.status >= CircuitStatus::PendingExecution
PublishesConfirmed(status) == StatusRank(status) >= StatusRank("PendingExecution")

\* emit(xtx_id, maybe_xtx, subjected_account, side_effects,
\* maybe_full_side_effects): the events deposited, in order
emit(xtx_id, maybe_xtx, side_effects, maybe_full_side_effects) ==
    (IF side_effects /= <<>>
     THEN <<[event |-> "NewSideEffectsAvailable", xtx_id |-> xtx_id,
             side_effects |-> side_effects,
             ids |-> [i \in 1..Len(side_effects) |-> generate_id(side_effects[i])]]>>
     ELSE <<>>)
    \o (IF IsSome(maybe_xtx)
        THEN LifecycleEvent(xtx_id, Unwrap(maybe_xtx).status)
             \o (IF PublishesConfirmed(Unwrap(maybe_xtx).status)
                    /\ IsSome(maybe_full_side_effects)
                 THEN <<[event |-> "SideEffectsConfirmed", xtx_id |-> xtx_id,
                         full_side_effects |-> Unwrap(maybe_full_side_effects)]>>
                 ELSE <<>>)
        ELSE <<>>)

\* ----------------------------------------------------------------- kill
\* square_up and apply of kill, on the context try_slash has left
KillSettled(st, killed, slashed, cause) ==
    LET squared == square_up(slashed.ctx, None, None, TRUE)
    IN  IF squared /= "Ok"
        THEN {[res |-> "Panic", st |-> st]}
        ELSE {[res |-> "Ok",
               st |-> apply([st EXCEPT !.am = charges_after_square_up(@, killed, None),
                                       !.slashes = settled.pool],
                            settled.ctx, None, <<cause, cause>>)] :
                 settled \in {try_slash_in_square_up(slashed.ctx, slashed.pool)}}

\* kill(local_ctx, cause); killed and slashed are bound to their values, which
\* are then computed once
kill(st, local_ctx, cause) ==
    CHOOSE returned \in
        UNION {UNION {KillSettled(st, killed, slashed, cause) :
                         slashed \in {try_slash(killed, st.slashes)}} :
                  killed \in {[local_ctx EXCEPT !.xtx.status = cause]}} : TRUE

\* -------------------------------------------------------------- confirm
\* a slip: the confirmation slot is written without the is_none check
confirm_order_Overwrites(side_effect, confirmation, step_side_effects) ==
    LET found == {j \in 1..Len(step_side_effects) :
                     generate_id(step_side_effects[j].input) = generate_id(side_effect)}
        index == CHOOSE j \in found : \A m \in found : j <= m
    IN  IF step_side_effects = <<>> \/ found = {}
        THEN [res |-> "Err", step |-> step_side_effects]
        ELSE [res |-> "Ok",
              step |-> [step_side_effects EXCEPT ![index].confirmed = Some(confirmation)]]

\* confirm_order, on the current step
confirm_order(side_effect, confirmation, step_side_effects) ==
    LET input_side_effect_id == generate_id(side_effect)
        found == {j \in 1..Len(step_side_effects) :
                     generate_id(step_side_effects[j].input) = input_side_effect_id}
        index == CHOOSE j \in found : \A m \in found : j <= m
    IN  IF step_side_effects = <<>> THEN [res |-> "Err", step |-> step_side_effects]
        ELSE IF found = {} THEN [res |-> "Err", step |-> step_side_effects]
        ELSE IF IsSome(step_side_effects[index].confirmed)
        THEN [res |-> "Err", step |-> step_side_effects]
        ELSE [res |-> "Ok",
              step |-> [step_side_effects EXCEPT ![index].confirmed = Some(confirmation)]]

\* a slip: the side effect is looked up in every step, not in the current one
confirm_InAnyStep(local_ctx, side_effect, confirmation, portal_ok) ==
    LET has == {k \in 1..Len(local_ctx.full_side_effects) :
                   confirm_order(side_effect, confirmation,
                                 local_ctx.full_side_effects[k]).res = "Ok"}
        k == CHOOSE k \in has : \A m \in has : m <= k
    IN  IF has = {} \/ ~portal_ok THEN [res |-> "Err", ctx |-> local_ctx]
        ELSE [res |-> "Ok",
              ctx |-> [local_ctx EXCEPT
                         !.full_side_effects[k] =
                             confirm_order(side_effect, confirmation,
                                           local_ctx.full_side_effects[k]).step]]

\* portal_ok: whether the portal verifies the inclusion proof and the
\* confirmation plug accepts the decoded parameters
confirm(local_ctx, side_effect, confirmation, portal_ok) ==
    IF ~CurrentStepInBounds(local_ctx) THEN [res |-> "Panic", ctx |-> local_ctx]
    ELSE LET ordered == confirm_order(side_effect, confirmation,
                                      get_current_step_fsx(local_ctx))
         IN  IF ordered.res /= "Ok" THEN [res |-> "Err", ctx |-> local_ctx]
             ELSE IF ~portal_ok THEN [res |-> "Err", ctx |-> local_ctx]
             ELSE [res |-> "Ok",
                   ctx |-> [local_ctx EXCEPT
                              !.full_side_effects[local_ctx.xtx.steps_cnt[1] + 1] =
                                  ordered.step]]

\* ----------------------------------------------------------- bond_4_sfx
\* transfer_ok: whether the executor can pay the insurance
bond_4_sfx(executor, local_ctx, sfx_id, transfer_ok) ==
    LET at == {i \in 1..Len(local_ctx.insurance_deposits) :
                  local_ctx.insurance_deposits[i][1] = sfx_id}
        i == CHOOSE i \in at : \A m \in at : i <= m
        bonded == [local_ctx.insurance_deposits[i][2] EXCEPT
                      !.bonded_relayer = Some(executor)]
    IN  IF at = {} THEN [res |-> "Err", ctx |-> local_ctx, deposit |-> <<>>]
        ELSE IF IsSome(local_ctx.insurance_deposits[i][2].bonded_relayer)
        THEN [res |-> "Err", ctx |-> local_ctx, deposit |-> <<>>]
        ELSE IF ~transfer_ok THEN [res |-> "Err", ctx |-> local_ctx, deposit |-> <<>>]
        ELSE [res |-> "Ok",
              ctx |-> [local_ctx EXCEPT !.insurance_deposits[i][2] = bonded],
              deposit |-> bonded]

\* ------------------------------------------------- process_signal_queue
swap_remove(queue, index) ==
    IF index = Len(queue) THEN SubSeq(queue, 1, Len(queue) - 1)
    ELSE SubSeq([queue EXCEPT ![index] = queue[Len(queue)]], 1, Len(queue) - 1)

\* a slip: the signal that cannot be handled is dropped
slide_Drops(queue) == Tail(queue)

\* queue.slide(0, queue.len()): the head moves behind the tail
slide(queue) == Tail(queue) \o <<Head(queue)>>

IntendedStatus(kind) == IF kind = "Complete" THEN "Finished" ELSE "RevertKill"

\* The while loop.  slid counts the signals slid to the back since the last
\* one that was handled: when it reaches the length of the queue, the loop is
\* back in a state it was in before and never ends.
RECURSIVE SignalLoop(_, _, _, _, _)
SignalLoop(st, queue, remaining_key_budget, slid, handled) ==
    IF queue = <<>> \/ remaining_key_budget = 0
    THEN [res |-> "Ok", st |-> st, queue |-> queue, handled |-> handled]
    ELSE LET signal == queue[1]
             loaded == setup(st, "Ready", Some(signal.execution_id), 0, 0)
         IN  IF loaded.res = "Panic"
             THEN [res |-> "Panic", st |-> st, queue |-> queue, handled |-> handled]
             ELSE IF loaded.res = "Ok"
             THEN LET killed == kill(st, loaded.ctx, IntendedStatus(signal.kind))
                  IN  IF killed.res = "Panic"
                      THEN [res |-> "Panic", st |-> st, queue |-> queue, handled |-> handled]
                      ELSE SignalLoop(killed.st, swap_remove(queue, 1),
                                      remaining_key_budget - 1, 0, Append(handled, signal))
             ELSE IF slid >= Len(queue)
             THEN [res |-> "Hang", st |-> st, queue |-> queue, handled |-> handled]
             ELSE SignalLoop(st, slide(queue), remaining_key_budget, slid + 1, handled)

process_signal_queue(st, queue) ==
    IF Len(queue) = 0
    THEN [res |-> "Ok", st |-> st, queue |-> queue, handled |-> <<>>]
    ELSE SignalLoop(st, queue, SignalQueueDepth \div 4, 0, <<>>)

\* -------------------------------------------------------- timeout sweep
\* a slip: a timing link that times out at this very block is passed over
TimedOut_Late(st, block_number) ==
    {id \in XtxIds : IsSome(st.tl[id]) /\ Unwrap(st.tl[id]) < block_number}

\* the timing links that have timed out
TimedOut(st, block_number) ==
    {id \in XtxIds : IsSome(st.tl[id]) /\ Unwrap(st.tl[id]) <= block_number}

\* the first entry, in key order, of the timing links that has timed out
FirstTimedOut(st, block_number) ==
    CHOOSE id \in TimedOut(st, block_number) :
        \A other \in TimedOut(st, block_number) : id <= other

\* a slip: the sweep runs in every block
timeout_sweep_EveryBlock(st, n) ==
    IF TimedOut(st, n) = {}
    THEN [res |-> "Ok", st |-> st, swept |-> 0]
    ELSE LET xtx_id == FirstTimedOut(st, n)
             loaded == setup(st, "RevertTimedOut", Some(xtx_id), 0, n)
         IN  IF loaded.res /= "Ok"
             THEN [res |-> "Panic", st |-> st, swept |-> 0]
             ELSE LET killed == kill(st, loaded.ctx, "RevertTimedOut")
                  IN  [res |-> killed.res, st |-> killed.st,
                       swept |-> IF killed.res = "Ok" THEN xtx_id ELSE 0]

timeout_sweep(st, n) ==
    IF n % XtxTimeoutCheckInterval /= 0 \/ TimedOut(st, n) = {}
    THEN [res |-> "Ok", st |-> st, swept |-> 0]
    ELSE LET deletion_counter == 0
             xtx_id == FirstTimedOut(st, n)
             loaded == setup(st, "RevertTimedOut", Some(xtx_id), 0, n)
         IN  IF deletion_counter > DeletionQueueLimit
             THEN [res |-> "Ok", st |-> st, swept |-> 0]
             ELSE IF loaded.res /= "Ok"
             THEN [res |-> "Panic", st |-> st, swept |-> 0]
             ELSE LET killed == kill(st, loaded.ctx, "RevertTimedOut")
                  IN  [res |-> killed.res, st |-> killed.st,
                       swept |-> IF killed.res = "Ok" THEN xtx_id ELSE 0]

\* --------------------------------------------------------- the handlers
\* Each handler is a function of the storage and its inputs to what it
\* returns and the storage it leaves; a handler that returns an error or
\* panics leaves the storage as it found it.

\* Hooks::on_initialize(n)
on_initialize(st, queue, n) ==
    LET signals == process_signal_queue(st, queue)
        sweep == timeout_sweep(signals.st, n)
    IN  IF signals.res /= "Ok"
        THEN [res |-> signals.res, st |-> st, queue |-> queue, swept |-> 0, handled |-> <<>>]
        ELSE IF sweep.res /= "Ok"
        THEN [res |-> sweep.res, st |-> st, queue |-> queue, swept |-> 0, handled |-> <<>>]
        ELSE [res |-> "Ok", st |-> sweep.st, queue |-> signals.queue,
              swept |-> sweep.swept, handled |-> signals.handled]

\* a slip: the charges are taken after apply has written
submit_side_effects_ChargesLast(st, local_ctx, side_effects, deposit_ok) ==
    LET validated == validate(side_effects, local_ctx)
        squared == square_up(validated.ctx, Some("requester"), None, deposit_ok)
        updated == update(validated.ctx)
    IN  IF validated.res /= "Ok" THEN [res |-> validated.res, st |-> st]
        ELSE IF updated.res /= "Ok" THEN [res |-> updated.res, st |-> st]
        ELSE [res |-> squared, st |-> apply(st, updated.ctx, None, updated.change)]

\* the phases validate, square_up, update and apply on a context set up
submit_side_effects(st, local_ctx, side_effects, deposit_ok) ==
    LET validated == validate(side_effects, local_ctx)
        squared == square_up(validated.ctx, Some("requester"), None, deposit_ok)
        updated == update(validated.ctx)
    IN  IF validated.res /= "Ok" THEN [res |-> validated.res, st |-> st]
        ELSE IF squared /= "Ok" THEN [res |-> squared, st |-> st]
        ELSE IF updated.res /= "Ok" THEN [res |-> updated.res, st |-> st]
        ELSE [res |-> "Ok",
              st |-> apply([st EXCEPT !.am = charges_after_square_up(@, validated.ctx, None),
                                      !.slashes =
                                          try_slash_in_square_up(validated.ctx, @).pool],
                           updated.ctx, None, updated.change)]

\* on_extrinsic_trigger(origin, side_effects, fee, sequential)
on_extrinsic_trigger(st, block_number, side_effects, fresh_id, deposit_ok) ==
    LET loaded == setup(st, "Requested", None, fresh_id, block_number)
    IN  IF loaded.res /= "Ok" THEN [res |-> loaded.res, st |-> st]
        ELSE submit_side_effects(st, loaded.ctx, side_effects, deposit_ok)

\* exec_in_xtx_ctx returns no side effects
exec_in_xtx_ctx == <<>>

\* OnLocalTrigger::on_local_trigger(origin, trigger)
on_local_trigger(st, block_number, maybe_xtx_id, fresh_id, deposit_ok) ==
    LET fresh_or_revoked_exec == IF IsSome(maybe_xtx_id) THEN "Ready" ELSE "Requested"
        loaded == setup(st, fresh_or_revoked_exec, maybe_xtx_id, fresh_id, block_number)
    IN  IF loaded.res /= "Ok" THEN [res |-> loaded.res, st |-> st]
        ELSE submit_side_effects(st, loaded.ctx, exec_in_xtx_ctx, deposit_ok)

\* OnLocalTrigger::load_local_state(origin, maybe_xtx_id)
load_local_state(st, block_number, maybe_xtx_id, fresh_id) ==
    LET fresh_or_revoked_exec == IF IsSome(maybe_xtx_id) THEN "Ready" ELSE "Requested"
        loaded == setup(st, fresh_or_revoked_exec, maybe_xtx_id, fresh_id, block_number)
        updated == update(loaded.ctx)
    IN  IF loaded.res /= "Ok" THEN [res |-> loaded.res, st |-> st]
        ELSE IF IsSome(maybe_xtx_id) THEN [res |-> "Ok", st |-> st]
        ELSE IF updated.res /= "Ok" THEN [res |-> updated.res, st |-> st]
        ELSE [res |-> "Ok", st |-> apply(st, updated.ctx, None, updated.change)]

\* a slip: push in place of try_push
on_signal_Unbounded(queue, signal) == [res |-> "Ok", queue |-> Append(queue, signal)]

\* OnLocalTrigger::on_signal(origin, signal)
on_signal(queue, signal) ==
    IF Len(queue) >= SignalQueueDepth
    THEN [res |-> "Err", queue |-> queue]
    ELSE [res |-> "Ok", queue |-> Append(queue, signal)]

\* bond_insurance_deposit(origin, xtx_id, side_effect_id)
bond_insurance_deposit(st, block_number, executor, xtx_id, side_effect_id, transfer_ok) ==
    LET loaded == setup(st, "PendingInsurance", Some(xtx_id), 0, block_number)
        bonded == bond_4_sfx(executor, loaded.ctx, side_effect_id, transfer_ok)
        updated == update(bonded.ctx)
    IN  IF loaded.res /= "Ok" THEN [res |-> loaded.res, st |-> st]
        ELSE IF bonded.res /= "Ok" THEN [res |-> bonded.res, st |-> st]
        ELSE IF updated.res /= "Ok" THEN [res |-> updated.res, st |-> st]
        ELSE [res |-> "Ok",
              st |-> apply(st, updated.ctx, Some(<<side_effect_id, bonded.deposit>>),
                           updated.change)]

\* confirm_side_effect(origin, xtx_id, side_effect, confirmation, _, _)
confirm_side_effect(st, block_number, xtx_id, side_effect, confirmation, portal_ok) ==
    LET loaded == setup(st, "PendingExecution", Some(xtx_id), 0, block_number)
        confirmed == confirm(loaded.ctx, side_effect, confirmation, portal_ok)
        updated == update(confirmed.ctx)
    IN  IF loaded.res /= "Ok" THEN [res |-> loaded.res, st |-> st]
        ELSE IF confirmed.res /= "Ok" THEN [res |-> confirmed.res, st |-> st]
        ELSE IF updated.res /= "Ok" THEN [res |-> updated.res, st |-> st]
        ELSE [res |-> "Ok", st |-> apply(st, updated.ctx, None, updated.change)]

\* XBIPortal::get_status(sfx_id): the bus knows the ids dispatched to it
get_status(xbi, sfx_id) == IF xbi[sfx_id] = 0 THEN "UnknownId" ELSE "Sent"

\* a slip: the status of the id on the bus is not looked at
IsScheduled_Never(xbi, sfx_id) == FALSE

\* the check of execute_side_effects_with_xbi on the status of the id
IsScheduled(xbi, sfx_id) == get_status(xbi, sfx_id) /= "UnknownId"

\* execute_side_effects_with_xbi(origin, xtx_id, side_effect, max_exec_cost,
\* max_notifications_cost).  convert_ok: whether the side effect converts to
\* an XBI message; then_ok: whether the bus takes the message.
execute_side_effects_with_xbi(st, block_number, executor, xtx_id, side_effect, convert_ok, deposit_ok, then_ok) ==
    LET sfx_id == generate_id(side_effect)
        loaded == setup(st, "PendingExecution", Some(xtx_id), 0, block_number)
        charge_id == XbiChargeId(sfx_id)
        squared == square_up(loaded.ctx, None, Some(charge_id), deposit_ok)
    IN  IF IsScheduled(st.xbi, sfx_id)
        THEN [res |-> "Err", st |-> st,
              error |-> "SideEffectIsAlreadyScheduledToExecuteOverXBI"]
        ELSE IF loaded.res /= "Ok" THEN [res |-> loaded.res, st |-> st, error |-> "Setup"]
        ELSE IF ~convert_ok THEN [res |-> "Err", st |-> st, error |-> "FailedToConvertSFX2XBI"]
        ELSE IF squared /= "Ok" THEN [res |-> squared, st |-> st, error |-> "SquareUp"]
        ELSE IF ~then_ok THEN [res |-> "Err", st |-> st, error |-> "XBIPromise"]
        ELSE [res |-> "Ok",
              st |-> [st EXCEPT
                         !.am = charges_after_square_up(@, loaded.ctx, Some(charge_id)),
                         !.slashes = try_slash_in_square_up(loaded.ctx, @).pool,
                         !.xbi[sfx_id] = @ + 1],
              error |-> "None"]

\* recover_local_ctx_by_sfx_id(sfx_id)
recover_local_ctx_by_sfx_id(st, sfx_id) ==
    IF IsNone(st.l2x[sfx_id]) THEN [res |-> "Err", ctx |-> <<>>]
    ELSE setup(st, "PendingExecution", st.l2x[sfx_id], 0, 0)

\* recover_fsx_by_id(sfx_id, local_ctx): the first unconfirmed FSX of the
\* current step with that id
recover_fsx_by_id(sfx_id, local_ctx) ==
    LET step == get_current_step_fsx(local_ctx)
        found == {j \in 1..Len(step) :
                     IsNone(step[j].confirmed) /\ generate_id(step[j].input) = sfx_id}
        index == CHOOSE j \in found : \A m \in found : j <= m
    IN  IF ~CurrentStepInBounds(local_ctx) THEN [res |-> "Panic", fsx |-> <<>>]
        ELSE IF found = {} THEN [res |-> "Err", fsx |-> <<>>]
        ELSE [res |-> "Ok", fsx |-> step[index]]

\* do_xbi_exit(xbi_checkin, _xbi_checkout).  The check-in holds the id of the
\* side effect, the executor (maybe_known_origin) and whether its instruction
\* has an exit event (exits); the context it confirms in is dropped at the
\* return, ctx is what it held.
do_xbi_exit(st, xbi_checkin, portal_ok) ==
    LET loaded == recover_local_ctx_by_sfx_id(st, xbi_checkin.sfx_id)
        recovered == recover_fsx_by_id(xbi_checkin.sfx_id, loaded.ctx)
        confirmation == [executioner |-> Unwrap(xbi_checkin.maybe_known_origin)]
        confirmed == confirm(loaded.ctx, recovered.fsx.input, confirmation, portal_ok)
    IN  IF loaded.res /= "Ok" THEN [res |-> loaded.res, st |-> st, ctx |-> <<>>]
        ELSE IF recovered.res /= "Ok" THEN [res |-> recovered.res, st |-> st, ctx |-> <<>>]
        ELSE IF IsNone(xbi_checkin.maybe_known_origin) \/ ~xbi_checkin.exits
        THEN [res |-> "Err", st |-> st, ctx |-> <<>>]
        ELSE IF confirmed.res /= "Ok" THEN [res |-> confirmed.res, st |-> st, ctx |-> <<>>]
        ELSE [res |-> "Ok", st |-> st, ctx |-> confirmed.ctx]

\* on_xbi_sfx_resolved(_origin, sfx_id); check_in and check_out are what the
\* XBI portal holds for the id
on_xbi_sfx_resolved(st, maybe_check_in, maybe_check_out, portal_ok) ==
    IF IsNone(maybe_check_in) \/ IsNone(maybe_check_out)
    THEN [res |-> "Err", st |-> st, ctx |-> <<>>]
    ELSE do_xbi_exit(st, Unwrap(maybe_check_in), portal_ok)

\* ---------------------------------------------------------- the actions
\* a call of a dispatchable: its writes, and what it returned
Called(op, returned) ==
    /\ Commit(returned.st)
    /\ last' = [op |-> op, res |-> returned.res]
    /\ UNCHANGED <<SignalQueue, now, vvars>>

\* the hook of block now + 1, for the blocks up to max
BlockInitializedUpTo(max) ==
    /\ now < max
    /\ \E returned \in {on_initialize(Store, SignalQueue, now + 1)} :
           /\ Commit(returned.st)
           /\ SignalQueue' = returned.queue
           /\ now' = IF returned.res = "Ok" THEN now + 1 ELSE now
           /\ last' = [op |-> "on_initialize", res |-> returned.res]
           /\ UNCHANGED vvars

BlockInitialized == BlockInitializedUpTo(MaxBlock)

ExtrinsicTriggered(side_effects, fresh_id, deposit_ok) ==
    /\ IsNone(XExecSignals[fresh_id])
    /\ Called("on_extrinsic_trigger",
              on_extrinsic_trigger(Store, now, side_effects, fresh_id, deposit_ok))

LocalTriggered(maybe_xtx_id, fresh_id) ==
    /\ IsNone(XExecSignals[fresh_id])
    /\ Called("on_local_trigger",
              on_local_trigger(Store, now, maybe_xtx_id, fresh_id, TRUE))

LocalStateLoaded(maybe_xtx_id, fresh_id) ==
    /\ IsNone(XExecSignals[fresh_id])
    /\ Called("load_local_state", load_local_state(Store, now, maybe_xtx_id, fresh_id))

LocalTriggeredOnXtx(xtx_id) ==
    Called("on_local_trigger", on_local_trigger(Store, now, Some(xtx_id), 0, TRUE))

LocalStateLoadedOfXtx(xtx_id) ==
    Called("load_local_state", load_local_state(Store, now, Some(xtx_id), 0))

\* a call of on_signal
SignalPushed(signal) ==
    LET returned == on_signal(SignalQueue, signal)
    IN  /\ SignalQueue' = returned.queue
        /\ last' = [op |-> "on_signal", res |-> returned.res]
        /\ UNCHANGED <<stores, now, vvars>>

Signalled(signal) ==
    /\ Len(SignalQueue) < MaxQueued
    /\ SignalPushed(signal)

InsuranceBonded(executor, xtx_id, side_effect_id, transfer_ok) ==
    Called("bond_insurance_deposit",
           bond_insurance_deposit(Store, now, executor, xtx_id, side_effect_id, transfer_ok))

SideEffectConfirmed(xtx_id, side_effect, confirmation, portal_ok) ==
    Called("confirm_side_effect",
           confirm_side_effect(Store, now, xtx_id, side_effect, confirmation, portal_ok))

SideEffectsExecutedWithXbi(executor, xtx_id, side_effect, convert_ok, deposit_ok, then_ok) ==
    /\ XBIPortal[generate_id(side_effect)] < MaxSent
    /\ Called("execute_side_effects_with_xbi",
              execute_side_effects_with_xbi(Store, now, executor, xtx_id, side_effect,
                                            convert_ok, deposit_ok, then_ok))

XbiSfxResolved(maybe_check_in, maybe_check_out, portal_ok) ==
    Called("on_xbi_sfx_resolved",
           on_xbi_sfx_resolved(Store, maybe_check_in, maybe_check_out, portal_ok))

\* ---------------------------------------------------- the specification
Signals == [execution_id : XtxIds, kind : {"Complete", "Kill"}]
Confirmations == [executioner : Executors]
\* the ids setup_fresh gives out in the lifecycle specification
FreshIds == {1}

Init ==
    /\ XExecSignals = [id \in XtxIds |-> None]
    /\ FullSideEffects = [id \in XtxIds |-> None]
    /\ LocalXtxStates = [id \in XtxIds |-> None]
    /\ InsuranceDeposits = [id \in XtxIds |-> [se \in SideEffects |-> None]]
    /\ XtxInsuranceLinks = [id \in XtxIds |-> <<>>]
    /\ LocalSideEffectToXtxIdLinks = [se \in SideEffects |-> None]
    /\ ActiveXExecSignalsTimingLinks = [id \in XtxIds |-> None]
    /\ AccountManager = [charge_id \in ChargeIds |-> "None"]
    /\ XBIPortal = [sfx_id \in SideEffects |-> 0]
    /\ Slashes = [id \in XtxIds |-> [sfx_id \in SideEffects |-> 0]]
    /\ SignalQueue = <<>>
    /\ now = 1
    /\ last = [op |-> "genesis", res |-> "Ok"]
    /\ vsteps = None
    /\ enqueued = <<>>
    /\ handled_order = <<>>
    /\ XDNSRegistry = [gateway_id \in GatewayIds |-> None]
    /\ events = None

InitL ==
    /\ Init
    /\ vbundle = <<>>
    /\ emit_args = None

Next ==
    \/ BlockInitialized
    \/ \E side_effects \in Bundles, fresh_id \in FreshIds, deposit_ok \in BOOLEAN :
          ExtrinsicTriggered(side_effects, fresh_id, deposit_ok)
    \/ \E fresh_id \in FreshIds : LocalTriggered(None, fresh_id)
    \/ \E fresh_id \in FreshIds : LocalStateLoaded(None, fresh_id)
    \/ \E xtx_id \in XtxIds : LocalTriggeredOnXtx(xtx_id)
    \/ \E xtx_id \in XtxIds : LocalStateLoadedOfXtx(xtx_id)
    \/ \E signal \in Signals : Signalled(signal)
    \/ \E executor \in Executors, xtx_id \in FreshIds, side_effect_id \in SideEffects,
          transfer_ok \in BOOLEAN :
          InsuranceBonded(executor, xtx_id, side_effect_id, transfer_ok)
    \/ \E xtx_id \in FreshIds, side_effect \in SideEffects, confirmation \in Confirmations,
          portal_ok \in BOOLEAN :
          SideEffectConfirmed(xtx_id, side_effect, confirmation, portal_ok)

Spec == InitL /\ [][Next]_vars

\* ------------------------------------ the specification of the timeouts
\* Two Xtx of one side effect each, their confirmations and the block hooks;
\* blocks keep being produced (up to MaxBlockT) as long as the hook returns.
BlockInitializedT == BlockInitializedUpTo(MaxBlockT)

NextT ==
    \/ BlockInitializedT
    \/ \E fresh_id \in XtxIds : ExtrinsicTriggered(<<SfxE>>, fresh_id, TRUE)
    \/ \E xtx_id \in XtxIds, confirmation \in Confirmations :
          SideEffectConfirmed(xtx_id, SfxE, confirmation, TRUE)

SpecT == InitL /\ [][NextT]_vars /\ WF_vars(BlockInitializedT)

\* ------------------------------ the specification of the rejected calls
\* Submissions and bonds, accepted and rejected: an unknown target (SfxX), a
\* prize that is not the reward (SfxM), a charge or a transfer that fails, a
\* deposit that is not required or is bonded already
ErrBundles == {<<SfxE>>, <<SfxO>>, <<SfxX>>, <<SfxM>>, <<SfxE, SfxX>>, <<SfxO, SfxM>>}

NextE ==
    \/ BlockInitialized
    \/ \E side_effects \in ErrBundles, fresh_id \in XtxIds, deposit_ok \in BOOLEAN :
          ExtrinsicTriggered(side_effects, fresh_id, deposit_ok)
    \/ \E executor \in Executors, xtx_id \in XtxIds, side_effect_id \in {SfxE, SfxO},
          transfer_ok \in BOOLEAN :
          InsuranceBonded(executor, xtx_id, side_effect_id, transfer_ok)

SpecE == InitL /\ [][NextE]_vars

\* ------------------------------ the specification of the XBI resolutions
\* Xtx of a local side effect and of one on a foreign gateway, confirmed by a
\* relayer or resolved over XBI
XbiSideEffects == {SfxE, SfxD}
XbiBundles == SeqsUpTo(XbiSideEffects, MaxBundle) \ {<<>>}
XBICheckIns ==
    [sfx_id : XbiSideEffects, maybe_known_origin : {None} \cup {Some(e) : e \in Executors},
     exits : BOOLEAN]
XBICheckOuts == {"Result"}

NextX ==
    \/ \E side_effects \in XbiBundles, fresh_id \in XtxIds :
          ExtrinsicTriggered(side_effects, fresh_id, TRUE)
    \/ \E xtx_id \in XtxIds, side_effect \in XbiSideEffects, confirmation \in Confirmations :
          SideEffectConfirmed(xtx_id, side_effect, confirmation, TRUE)
    \/ \E executor \in Executors, xtx_id \in XtxIds, side_effect \in XbiSideEffects,
          convert_ok \in BOOLEAN, deposit_ok \in BOOLEAN, then_ok \in BOOLEAN :
          SideEffectsExecutedWithXbi(executor, xtx_id, side_effect,
                                     convert_ok, deposit_ok, then_ok)
    \/ \E maybe_check_in \in {None} \cup {Some(c) : c \in XBICheckIns},
          maybe_check_out \in {None} \cup {Some(c) : c \in XBICheckOuts},
          portal_ok \in BOOLEAN :
          XbiSfxResolved(maybe_check_in, maybe_check_out, portal_ok)

SpecX == InitL /\ [][NextX]_vars

\* ------------------------------ the specification of the signal queue alone
\* on_signal called again and again, up to and at a full queue
NextQ == \E signal \in Signals : SignalPushed(signal)

SpecQ == InitL /\ [][NextQ]_vars

\* ------------------------------------ the specification of the admissions
\* Submissions of bundles of one or two steps, with and without a prize, with
\* a requester who can and who cannot pay
ChargeBundles == SeqsUpTo({SfxE, SfxD, SfxD2}, MaxBundle)

NextC ==
    \E side_effects \in ChargeBundles, fresh_id \in XtxIds, deposit_ok \in BOOLEAN :
        ExtrinsicTriggered(side_effects, fresh_id, deposit_ok)

SpecC == InitL /\ [][NextC]_vars

\* ------------------------------ the specification of the order of signals
\* Two Xtx of one side effect each, up to MaxEnqueued signals, each for an Xtx
\* that is stored, and the block hooks.  enqueued is the SignalQueue with, on each signal, the number of the
\* on_signal call that queued it; handled_order is the numbers of the signals
\* process_signal_queue has handled, in the order it handled them.
Numbered(signal, seq) ==
    [execution_id |-> signal.execution_id, kind |-> signal.kind, seq |-> seq]

Unnumbered(queue) ==
    [i \in 1..Len(queue) |-> [execution_id |-> queue[i].execution_id, kind |-> queue[i].kind]]

SignalPushedF(signal) ==
    /\ Len(enqueued) + Len(handled_order) < MaxEnqueued
    /\ \E returned \in {on_signal(enqueued,
                                   Numbered(signal, Len(enqueued) + Len(handled_order) + 1))} :
           /\ SignalQueue' = Unnumbered(returned.queue)
           /\ enqueued' = returned.queue
           /\ last' = [op |-> "on_signal", res |-> returned.res]
           /\ UNCHANGED <<stores, now, vbundle, vsteps, handled_order, XDNSRegistry,
                       emit_args, events>>

BlockInitializedF ==
    /\ now < MaxBlock
    /\ \E returned \in {on_initialize(Store, enqueued, now + 1)} :
           /\ Commit(returned.st)
           /\ SignalQueue' = Unnumbered(returned.queue)
           /\ enqueued' = returned.queue
           /\ handled_order' = handled_order \o [i \in 1..Len(returned.handled) |->
                                                    returned.handled[i].seq]
           /\ now' = IF returned.res = "Ok" THEN now + 1 ELSE now
           /\ last' = [op |-> "on_initialize", res |-> returned.res]
           /\ UNCHANGED <<vbundle, vsteps, XDNSRegistry, emit_args, events>>

NextF ==
    \/ BlockInitializedF
    \/ \E fresh_id \in XtxIds : ExtrinsicTriggered(<<SfxE>>, fresh_id, TRUE)
    \/ \E signal \in Signals :
          IsSome(XExecSignals[signal.execution_id]) /\ SignalPushedF(signal)

SpecF == InitL /\ [][NextF]_vars

\* the same, with signals for an Xtx that is not stored as well: their setup
\* fails and process_signal_queue slides them to the back
NextS ==
    \/ BlockInitializedF
    \/ \E fresh_id \in XtxIds : ExtrinsicTriggered(<<SfxE>>, fresh_id, TRUE)
    \/ \E signal \in Signals : SignalPushedF(signal)

SpecS == InitL /\ [][NextS]_vars

\* ------------------------------------ the specification of the XDNS registry
\* The registry of pallet-xdns under add_new_xdns_record and
\* purge_xdns_record, called by root and by a signed origin, from the empty
\* registry of ExtBuilder::default().
Origins == {"Root", "Signed"}
Urls == {"some_url", "other_url"}

\* add_new_xdns_record(origin, url, gateway_id, ..)
add_new_xdns_record(registry, origin, url, gateway_id) ==
    IF origin /= "Root" THEN [res |-> "BadOrigin", registry |-> registry]
    ELSE IF IsSome(registry[gateway_id])
    THEN [res |-> "XdnsRecordAlreadyExists", registry |-> registry]
    ELSE [res |-> "Ok", registry |-> [registry EXCEPT ![gateway_id] = Some([url |-> url])]]

\* purge_xdns_record(origin, requester, xdns_record_id)
purge_xdns_record(registry, origin, requester, xdns_record_id) ==
    IF origin /= "Root" THEN [res |-> "BadOrigin", registry |-> registry]
    ELSE IF IsNone(registry[xdns_record_id])
    THEN [res |-> "UnknownXdnsRecord", registry |-> registry]
    ELSE [res |-> "Ok", registry |-> [registry EXCEPT ![xdns_record_id] = None]]

XdnsCalled(op, origin, gateway_id, returned) ==
    /\ XDNSRegistry' = returned.registry
    /\ last' = [op |-> op, res |-> returned.res, origin |-> origin, gateway_id |-> gateway_id]
    /\ UNCHANGED <<stores, SignalQueue, now, vbundle, vsteps, enqueued, handled_order,
                   emit_args, events>>

\* a slip: the record is written before the registry is looked up
XdnsRecordAdded_WritesFirst(origin, url, gateway_id) ==
    XdnsCalled("add_new_xdns_record", origin, gateway_id,
               [res |-> add_new_xdns_record(XDNSRegistry, origin, url, gateway_id).res,
                registry |-> IF origin = "Root"
                             THEN [XDNSRegistry EXCEPT ![gateway_id] = Some([url |-> url])]
                             ELSE XDNSRegistry])

XdnsRecordAdded(origin, url, gateway_id) ==
    XdnsCalled("add_new_xdns_record", origin, gateway_id,
               add_new_xdns_record(XDNSRegistry, origin, url, gateway_id))

\* a slip: the origin is looked at after the record is removed
XdnsRecordPurged_RemovesFirst(origin, requester, xdns_record_id) ==
    XdnsCalled("purge_xdns_record", origin, xdns_record_id,
               [res |-> purge_xdns_record(XDNSRegistry, origin, requester, xdns_record_id).res,
                registry |-> [XDNSRegistry EXCEPT ![xdns_record_id] = None]])

XdnsRecordPurged(origin, requester, xdns_record_id) ==
    XdnsCalled("purge_xdns_record", origin, xdns_record_id,
               purge_xdns_record(XDNSRegistry, origin, requester, xdns_record_id))

NextN ==
    \/ \E origin \in Origins, url \in Urls, gateway_id \in GatewayIds :
          XdnsRecordAdded(origin, url, gateway_id)
    \/ \E origin \in Origins, requester \in Executors, xdns_record_id \in GatewayIds :
          XdnsRecordPurged(origin, requester, xdns_record_id)

SpecN == InitL /\ [][NextN]_vars

\* ----------------------------------------- the specification of emit alone
\* emit on every status of the Xtx passed in (or none), with and without a
\* batch of side effects and a step vector
Statuses ==
    {"Requested", "PendingInsurance", "Bonded", "Ready", "PendingExecution", "Finished",
     "FinishedAllSteps", "RevertTimedOut", "RevertKill", "RevertMisbehaviour", "Reverted"}

EmitArgs ==
    [xtx_id : XtxIds,
     maybe_xtx : {None} \cup {Some([status |-> status, steps_cnt |-> <<0, 1>>,
                                     timeouts_at |-> XtxTimeoutDefault + 1]) :
                                  status \in Statuses},
     side_effects : {<<>>, <<SfxE>>, <<SfxE, SfxO>>},
     maybe_full_side_effects : {None, Some(ValidatedSteps(<<SfxE>>))}]

InitM ==
    /\ Init
    /\ vbundle = <<>>
    /\ emit_args \in EmitArgs

Emitted ==
    /\ events = None
    /\ events' = Some(emit(emit_args.xtx_id, emit_args.maybe_xtx, emit_args.side_effects,
                           emit_args.maybe_full_side_effects))
    /\ last' = [op |-> "emit", res |-> "Ok"]
    /\ UNCHANGED <<stores, SignalQueue, now, vbundle, vsteps, enqueued, handled_order,
                   XDNSRegistry, emit_args>>

NextM == Emitted

SpecM == InitM /\ [][NextM]_vars

\* ------------------------------------- the specification of validate alone
\* validate on a fresh context, for every bundle of up to MaxLen side effects
ValidationBundles == SeqsUpTo(AllSideEffects, MaxLen)

FreshCtx == setup(Store, "Requested", None, 1, 1).ctx

InitV ==
    /\ Init
    /\ emit_args = None
    /\ vbundle \in ValidationBundles

Validated ==
    /\ vsteps = None
    /\ LET validated == validate(vbundle, FreshCtx)
       IN  vsteps' = Some([res |-> validated.res,
                           full_side_effects |-> validated.ctx.full_side_effects,
                           insurance_deposits |-> validated.ctx.insurance_deposits])
    /\ last' = [op |-> "validate", res |-> validate(vbundle, FreshCtx).res]
    /\ UNCHANGED <<stores, SignalQueue, now, vbundle, enqueued, handled_order, XDNSRegistry,
                 emit_args, events>>

NextV == Validated

SpecV == InitV /\ [][NextV]_vars

\* ============================================================ the claims
Stored(id) == IsSome(XExecSignals[id])
Xtx(id) == Unwrap(XExecSignals[id])
Steps(id) == Unwrap(FullSideEffects[id])
Linked(id, sfx_id) == \E i \in 1..Len(XtxInsuranceLinks[id]) : XtxInsuranceLinks[id][i] = sfx_id

\* C1: an xtx id has a timing link if and only if its Xtx is stored with a
\* status below FinishedAllSteps and outside the revert family.
C1_TimingLinkIffActive ==
    \A id \in XtxIds :
        IsSome(ActiveXExecSignalsTimingLinks[id])
            <=> /\ Stored(id)
                /\ StatusRank(Xtx(id).status) < StatusRank("FinishedAllSteps")
                /\ Xtx(id).status \notin RevertFamily

\* C2: once the stored status of an Xtx is terminal, no step changes its
\* XExecSignals row or its FullSideEffects row.
C2_TerminalIsAbsorbing ==
    [][\A id \in XtxIds :
          (Stored(id) /\ Xtx(id).status \in TerminalStatuses)
              => /\ XExecSignals'[id] = XExecSignals[id]
                 /\ FullSideEffects'[id] = FullSideEffects[id]]_vars

\* C3: an operation that is not a revert (anything but the block hook) never
\* lowers the stored status of an Xtx.
C3_StatusNeverDecreases ==
    [][last'.op /= "on_initialize"
          => \A id \in XtxIds :
                (Stored(id) /\ IsSome(XExecSignals'[id]))
                    => StatusRank(Unwrap(XExecSignals'[id]).status)
                          >= StatusRank(Xtx(id).status)]_vars

\* C4: for every stored Xtx the cursor is at most the total, and when the two
\* are equal the stored status is FinishedAllSteps.
C4_CursorWithinTotal ==
    \A id \in XtxIds :
        Stored(id)
            => /\ Xtx(id).steps_cnt[1] <= Xtx(id).steps_cnt[2]
               /\ Xtx(id).steps_cnt[1] = Xtx(id).steps_cnt[2]
                     => Xtx(id).status = "FinishedAllSteps"

\* C5: an insurance deposit row is present if and only if its sfx id is in the
\* insurance links of its Xtx, so setup never misses a linked row.
C5_DepositsIffLinked ==
    /\ \A id \in XtxIds, sfx_id \in SideEffects :
          IsSome(InsuranceDeposits[id][sfx_id]) <=> Linked(id, sfx_id)
    /\ \A id \in XtxIds : setup(Store, "PendingInsurance", Some(id), 0, now).res /= "Panic"

C5_Witness ==
    /\ last = [op |-> "bond_insurance_deposit", res |-> "Ok"]
    /\ \E id \in XtxIds, sfx_id \in SideEffects :
          /\ Linked(id, sfx_id)
          /\ IsSome(InsuranceDeposits[id][sfx_id])
          /\ IsSome(Unwrap(InsuranceDeposits[id][sfx_id]).bonded_relayer)

\* what validate returned in the validation specification
VSteps == Unwrap(vsteps).full_side_effects
VOk == IsSome(vsteps) /\ Unwrap(vsteps).res = "Ok"
DirtyIn(step) == {j \in 1..Len(step) : step[j].security_lvl = "Dirty"}

\* C6: every step of validate's step vector holds at most one Dirty FSX, a step
\* with a Dirty FSX holds nothing else, and every Dirty FSX is in a later step
\* than every FSX that is not Dirty.
C6_DirtyStepsAreIsolated ==
    VOk => /\ \A k \in 1..Len(VSteps) :
                /\ Cardinality(DirtyIn(VSteps[k])) <= 1
                /\ DirtyIn(VSteps[k]) /= {} => Len(VSteps[k]) = 1
           /\ \A k \in 1..Len(VSteps), m \in 1..Len(VSteps) :
                (DirtyIn(VSteps[k]) /= {}
                    /\ DirtyIn(VSteps[m]) /= 1..Len(VSteps[m])) => m < k

C6_Witness ==
    /\ VOk
    /\ Len(VSteps) = 3
    /\ Len(VSteps[1]) = 2
    /\ DirtyIn(VSteps[1]) = {}
    /\ DirtyIn(VSteps[2]) = {1}

\* the FSX of one security level, in submission order
OfLevel(side_effects, lvl) ==
    LET fsxs == [i \in 1..Len(side_effects) |-> NewFullSideEffect(side_effects[i])]
        IsOfLevel(fsx) == fsx.security_lvl = lvl
    IN  SelectSeq(fsxs, IsOfLevel)

\* the reference partition: the FSX that are not Dirty in one first step,
\* then one step for each Dirty FSX
ReferencePartition(side_effects) ==
    LET first == OfLevel(side_effects, "Escrowed") \o OfLevel(side_effects, "Optimistic")
        dirty == OfLevel(side_effects, "Dirty")
    IN  (IF first = <<>> THEN <<>> ELSE <<first>>)
            \o [i \in 1..Len(dirty) |-> <<dirty[i]>>]

\* C7: for a bundle that is not empty, validate's step vector is the reference
\* partition of the bundle.
C7_StepsAreReferencePartition ==
    (VOk /\ vbundle /= <<>>) => VSteps = ReferencePartition(vbundle)

C7_Witness ==
    /\ VOk
    /\ vbundle = <<SfxE, SfxD, SfxO, SfxD2>>
    /\ [k \in 1..Len(VSteps) |-> [j \in 1..Len(VSteps[k]) |-> VSteps[k][j].input]]
          = << <<SfxE, SfxO>>, <<SfxD>>, <<SfxD2>> >>

\* C8: a bundle of zero side effects, through on_extrinsic_trigger or
\* on_local_trigger, returns an error and leaves every store as it was.
C8_EmptyBundleIsRejected ==
    [][\A fresh_id \in FreshIds :
          (\/ ExtrinsicTriggered(<<>>, fresh_id, TRUE)
           \/ LocalTriggered(None, fresh_id))
              => (last'.res = "Err" /\ UNCHANGED stores)]_vars

\* the stored FSX of an Xtx that carry the given SFX
Instances(id, side_effect) ==
    UNION {{<<k, j>> : j \in {j \in 1..Len(Steps(id)[k]) :
                                 Steps(id)[k][j].input = side_effect}} :
              k \in 1..Len(Steps(id))}

ConfirmedAt(id, at) == IsSome(Steps(id)[at[1]][at[2]].confirmed)

\* a confirm_side_effect call that is rejected before any write
ConfirmIsRejected(id, side_effect) ==
    \A confirmation \in Confirmations, portal_ok \in BOOLEAN :
        LET returned == confirm_side_effect(Store, now, id, side_effect,
                                            confirmation, portal_ok)
        IN  returned.res /= "Ok" /\ returned.st = Store

C10_ConfirmationIsKept ==
    [][\A id \in XtxIds :
          IsSome(FullSideEffects[id])
              => \A k \in 1..Len(Steps(id)) :
                    \A j \in 1..Len(Steps(id)[k]) :
                        IsSome(Steps(id)[k][j].confirmed)
                            => /\ IsSome(FullSideEffects'[id])
                               /\ k <= Len(Unwrap(FullSideEffects'[id]))
                               /\ j <= Len(Unwrap(FullSideEffects'[id])[k])
                               /\ Unwrap(FullSideEffects'[id])[k][j].confirmed
                                     = Steps(id)[k][j].confirmed]_vars

\* the steps of an Xtx, after the step taken
StepsAfter(id) == Unwrap(FullSideEffects'[id])

KillCauses == {"RevertTimedOut", IntendedStatus("Kill"), IntendedStatus("Complete")}

\* C12: for every Xtx setup loads, whatever its stored status and cursor, and
\* for every cause its callers pass, kill completes without a panic.
C12_KillIsInfallible ==
    \A id \in XtxIds, cause \in KillCauses :
        LET loaded == setup(Store, "Ready", Some(id), 0, now)
        IN  loaded.res = "Ok" => kill(Store, loaded.ctx, cause).res = "Ok"

\* C13: when a Kill signal for an Xtx stored as Ready is at the head of the
\* signal queue, the next block hook that completes stores RevertKill for it.
C13_KillSignalStoresRevertKill ==
    [][\A id \in XtxIds :
          (/\ SignalQueue /= <<>>
           /\ SignalQueue[1] = [execution_id |-> id, kind |-> "Kill"]
           /\ Stored(id)
           /\ Xtx(id).status = "Ready"
           /\ last' = [op |-> "on_initialize", res |-> "Ok"])
              => /\ IsSome(XExecSignals'[id])
                 /\ Unwrap(XExecSignals'[id]).status = "RevertKill"]_vars

\* C14: process_signal_queue ends for the queue the storage holds, and
\* handles at most SignalQueueDepth / 4 of its signals.
C14_SignalQueueProcessingEnds ==
    LET processed == process_signal_queue(Store, SignalQueue)
    IN  /\ processed.res /= "Hang"
        /\ Len(processed.handled) <= SignalQueueDepth \div 4

\* C15: the signal queue never holds more than SignalQueueDepth signals; on a
\* full queue on_signal returns an error and leaves the queue as it was, on a
\* shorter one it appends the signal at the tail.
C15_SignalQueueIsBounded ==
    /\ [](Len(SignalQueue) <= SignalQueueDepth)
    /\ [][\A signal \in Signals :
              SignalPushed(signal)
                  => IF Len(SignalQueue) >= SignalQueueDepth
                     THEN last'.res = "Err" /\ SignalQueue' = SignalQueue
                     ELSE /\ last'.res = "Ok"
                          /\ Len(SignalQueue') = Len(SignalQueue) + 1
                          /\ SignalQueue'[Len(SignalQueue')] = signal
                          /\ SubSeq(SignalQueue', 1, Len(SignalQueue)) = SignalQueue]_vars

C15_Witness ==
    /\ last = [op |-> "on_signal", res |-> "Err"]
    /\ Len(SignalQueue) = SignalQueueDepth

\* the xtx ids with a timing link that is due at block n
DueAt(n) ==
    {id \in XtxIds : /\ IsSome(ActiveXExecSignalsTimingLinks[id])
                     /\ Unwrap(ActiveXExecSignalsTimingLinks[id]) <= n}

\* C16: a stored status becomes RevertTimedOut only in the block hook of a
\* sweep block, and only for an Xtx with timeouts_at <= now; at a sweep block
\* the first Xtx that is due, timeouts_at = now included, is reverted.
C16_SweepRevertsWhatIsDue ==
    [][\A id \in XtxIds :
          /\ (/\ Stored(id)
              /\ Xtx(id).status /= "RevertTimedOut"
              /\ IsSome(XExecSignals'[id])
              /\ Unwrap(XExecSignals'[id]).status = "RevertTimedOut")
                 => /\ last'.op = "on_initialize"
                    /\ now' % XtxTimeoutCheckInterval = 0
                    /\ Xtx(id).timeouts_at <= now'
          /\ (/\ last' = [op |-> "on_initialize", res |-> "Ok"]
              /\ now' = now + 1
              /\ now' % XtxTimeoutCheckInterval = 0
              /\ id \in DueAt(now')
              /\ \A other \in DueAt(now') : id <= other)
                 => /\ IsSome(XExecSignals'[id])
                    /\ Unwrap(XExecSignals'[id]).status = "RevertTimedOut"]_vars

\* an Xtx is reverted at the very block it times out at
C16_Witness ==
    /\ last = [op |-> "on_initialize", res |-> "Ok"]
    /\ \E id \in XtxIds :
          /\ Stored(id)
          /\ Xtx(id).status = "RevertTimedOut"
          /\ Xtx(id).timeouts_at = now

\* the hooks it takes, at most, to sweep every Xtx that is due: one Xtx is
\* swept at each sweep block
SweepSlack == XtxTimeoutCheckInterval * MaxXtx - 1

\* C17: an Xtx that is stored, not completed, and due (with enough blocks
\* left for the sweeps) is eventually stored as RevertTimedOut without a
\* timing link, unless it finishes all its steps first.
C17_DueXtxIsEventuallyReverted ==
    \A id \in XtxIds :
        (/\ Stored(id)
         /\ Xtx(id).status \notin TerminalStatuses
         /\ Xtx(id).timeouts_at <= now
         /\ now + SweepSlack <= MaxBlockT)
            ~> (/\ Stored(id)
                /\ \/ /\ Xtx(id).status = "RevertTimedOut"
                      /\ IsNone(ActiveXExecSignalsTimingLinks[id])
                   \/ Xtx(id).status = "FinishedAllSteps")

\* the step a confirmation has completed: the one before the cursor
StepCompletedBy(id) ==
    Unwrap(FullSideEffects'[id])[Unwrap(XExecSignals'[id]).steps_cnt[1]]

\* C18: when confirm_side_effect completes the current step of an Xtx (the
\* cursor moves on, the status stored is Finished or FinishedAllSteps), the
\* charge deposited for a side effect of that step is finalized with outcome
\* Commit.
C18_CompletedStepIsCommitted ==
    [][\A id \in XtxIds :
          (/\ last'.op = "confirm_side_effect"
           /\ last'.res = "Ok"
           /\ Stored(id)
           /\ Unwrap(XExecSignals'[id]).steps_cnt[1] = Xtx(id).steps_cnt[1] + 1
           /\ Unwrap(XExecSignals'[id]).status \in {"Finished", "FinishedAllSteps"})
              => \A j \in 1..Len(StepCompletedBy(id)) :
                    AccountManager[generate_id(StepCompletedBy(id)[j].input)] = "Deposited"
                        => AccountManager'[generate_id(StepCompletedBy(id)[j].input)]
                               = "Commit"]_vars

\* some insurance deposit linked to the Xtx is stored unbonded
AnyUnbonded(deposits, links) ==
    \E i \in 1..Len(links) :
        IsSome(deposits[links[i]]) /\ IsNone(Unwrap(deposits[links[i]]).bonded_relayer)

\* C19: an Xtx admitted with an insured side effect is stored as
\* PendingInsurance; no call changes that status while one of its deposits is
\* stored unbonded (the block hook, which reverts on a timeout or a signal,
\* aside); the bond_insurance_deposit that leaves no deposit unbonded stores
\* Ready.
C19_PendingInsuranceUntilAllBonded ==
    [][\A id \in XtxIds :
          /\ (/\ ~Stored(id)
              /\ IsSome(XExecSignals'[id])
              /\ XtxInsuranceLinks'[id] /= <<>>)
                 => Unwrap(XExecSignals'[id]).status = "PendingInsurance"
          /\ (/\ Stored(id)
              /\ Xtx(id).status = "PendingInsurance"
              /\ last'.op /= "on_initialize"
              /\ AnyUnbonded(InsuranceDeposits'[id], XtxInsuranceLinks'[id]))
                 => Unwrap(XExecSignals'[id]).status = "PendingInsurance"
          /\ (/\ Stored(id)
              /\ Xtx(id).status = "PendingInsurance"
              /\ last'.op = "bond_insurance_deposit"
              /\ last'.res = "Ok"
              /\ AnyUnbonded(InsuranceDeposits[id], XtxInsuranceLinks[id])
              /\ ~AnyUnbonded(InsuranceDeposits'[id], XtxInsuranceLinks'[id]))
                 => Unwrap(XExecSignals'[id]).status = "Ready"]_vars

\* the resolution of sfx_id over XBI, executed by executor, all checks passing
Resolved(sfx_id, executor) ==
    on_xbi_sfx_resolved(Store,
                        Some([sfx_id |-> sfx_id, maybe_known_origin |-> Some(executor),
                              exits |-> TRUE]),
                        Some("Result"), TRUE)

\* C20: where on_xbi_sfx_resolved succeeds on a side effect (an unconfirmed
\* one of the current step of the Xtx it is linked to), it leaves the storage
\* that confirm_side_effect leaves for the same side effect and executor:
\* the FSX confirmed, the cursor and the status advanced.
C20_XbiResolutionConfirms ==
    \A sfx_id \in SideEffects, executor \in Executors :
        Resolved(sfx_id, executor).res = "Ok"
            => Resolved(sfx_id, executor).st
                  = confirm_side_effect(Store, now,
                                         Unwrap(LocalSideEffectToXtxIdLinks[sfx_id]), sfx_id,
                                         [executioner |-> executor], TRUE).st

\* the Xtx makes a terminal transition in this step
BecomesTerminal(id) ==
    /\ Stored(id)
    /\ Xtx(id).status \notin TerminalStatuses
    /\ IsSome(XExecSignals'[id])
    /\ Unwrap(XExecSignals'[id]).status \in TerminalStatuses

\* C21: when an Xtx makes a terminal transition, its FullSideEffects row,
\* its LocalXtxStates row, its InsuranceDeposits rows, its XtxInsuranceLinks
\* entry and its timing link are all gone after the step.
C21_TerminalTransitionDeletesArtifacts ==
    [][\A id \in XtxIds :
          BecomesTerminal(id)
              => /\ IsNone(FullSideEffects'[id])
                 /\ IsNone(LocalXtxStates'[id])
                 /\ \A sfx_id \in SideEffects : IsNone(InsuranceDeposits'[id][sfx_id])
                 /\ XtxInsuranceLinks'[id] = <<>>
                 /\ IsNone(ActiveXExecSignalsTimingLinks'[id])]_vars

\* the eight stores of the pallet
CircuitStores ==
    <<InsuranceDeposits, LocalSideEffectToXtxIdLinks, ActiveXExecSignalsTimingLinks,
      XExecSignals, XtxInsuranceLinks, LocalXtxStates, FullSideEffects, SignalQueue>>

\* C22: an on_extrinsic_trigger or a bond_insurance_deposit that returns an
\* error leaves each of the eight stores as it was.
C22_RejectedCallWritesNothing ==
    [][(/\ last'.op \in {"on_extrinsic_trigger", "bond_insurance_deposit"}
        /\ last'.res = "Err")
           => UNCHANGED CircuitStores]_vars

C22_Witness ==
    /\ last.op = "on_extrinsic_trigger"
    /\ last.res = "Err"
    /\ \E id \in XtxIds :
          /\ Stored(id)
          /\ Xtx(id).status = "Ready"
          /\ XtxInsuranceLinks[id] /= <<>>

\* the deposit of (id, sfx_id) is stored with a bonder
Bonded(deposits, id, sfx_id) ==
    IsSome(deposits[id][sfx_id]) /\ IsSome(Unwrap(deposits[id][sfx_id]).bonded_relayer)

\* a bond_insurance_deposit call that is rejected before any write
BondIsRejected(id, sfx_id) ==
    \A executor \in Executors, transfer_ok \in BOOLEAN :
        LET returned == bond_insurance_deposit(Store, now, executor, id, sfx_id, transfer_ok)
        IN  returned.res /= "Ok" /\ returned.st = Store

\* C23: a deposit is bonded by at most one executor.  A bond_insurance_deposit
\* that succeeds stores a bonder on a deposit that had none; while a deposit
\* is stored with a bonder every bond_insurance_deposit for it, by any
\* executor, is rejected; and a deposit stored with a bonder never changes.
C23_DepositIsBondedOnce ==
    /\ [][(last'.op = "bond_insurance_deposit" /\ last'.res = "Ok")
            => \E id \in XtxIds, sfx_id \in SideEffects :
                  /\ ~Bonded(InsuranceDeposits, id, sfx_id)
                  /\ Bonded(InsuranceDeposits', id, sfx_id)]_vars
    /\ [](\A id \in XtxIds, sfx_id \in SideEffects :
            Bonded(InsuranceDeposits, id, sfx_id) => BondIsRejected(id, sfx_id))
    /\ [][\A id \in XtxIds, sfx_id \in SideEffects :
            Bonded(InsuranceDeposits, id, sfx_id)
                => InsuranceDeposits'[id][sfx_id] = InsuranceDeposits[id][sfx_id]]_vars

\* an execute_side_effects_with_xbi call for the side effect that fails as
\* already scheduled, with no charge, no dispatch and no write
ScheduleIsRejected(sfx_id) ==
    \A executor \in Executors, xtx_id \in XtxIds,
       convert_ok \in BOOLEAN, deposit_ok \in BOOLEAN, then_ok \in BOOLEAN :
        LET returned == execute_side_effects_with_xbi(Store, now, executor, xtx_id, sfx_id,
                                                      convert_ok, deposit_ok, then_ok)
        IN  /\ returned.res = "Err"
            /\ returned.error = "SideEffectIsAlreadyScheduledToExecuteOverXBI"
            /\ returned.st = Store

\* C24: execute_side_effects_with_xbi for a side effect the bus knows fails
\* with SideEffectIsAlreadyScheduledToExecuteOverXBI and changes nothing (no
\* charge, no dispatch, no write to the Xtx); no side effect is dispatched to
\* the bus twice.
C24_ScheduledOverXbiOnce ==
    \A sfx_id \in SideEffects :
        /\ XBIPortal[sfx_id] <= 1
        /\ XBIPortal[sfx_id] > 0 => ScheduleIsRejected(sfx_id)

C24_Witness ==
    /\ last.op = "execute_side_effects_with_xbi"
    /\ last.res = "Err"
    /\ XBIPortal[SfxE] = 1
    /\ AccountManager[XbiChargeId(SfxE)] = "Deposited"
    /\ \A id \in XtxIds : Stored(id)

\* C25: every locally executable side effect (target the self gateway or a
\* programmable-internal gateway) of a stored Xtx that is not terminal is
\* linked to that Xtx in LocalSideEffectToXtxIdLinks.
C25_LocalSideEffectsAreLinked ==
    \A id \in XtxIds :
        (Stored(id) /\ Xtx(id).status \notin TerminalStatuses /\ IsSome(FullSideEffects[id]))
            => \A k \in 1..Len(Steps(id)) : \A j \in 1..Len(Steps(id)[k]) :
                  is_local(Steps(id)[k][j].input.target)
                      => LocalSideEffectToXtxIdLinks[generate_id(Steps(id)[k][j].input)]
                            = Some(id)

\* C26: slashing is idempotent under re-entry: whatever is run, and however
\* often the revert settlement is run on an Xtx, the bond of each insurance
\* deposit goes to the slashing pool at most once.
C26_DepositIsSlashedOnce ==
    \A id \in XtxIds, sfx_id \in SideEffects : Slashes[id][sfx_id] <= 1

\* C27: the SignalQueue is first in, first out: process_signal_queue handles
\* the signals in the order in which on_signal queued them, across blocks.
C27_SignalsAreHandledInOrder ==
    \A i, j \in 1..Len(handled_order) : i < j => handled_order[i] < handled_order[j]

\* C28: add_new_xdns_record called by root succeeds and makes the record
\* retrievable when the registry holds no record of that gateway id; when it
\* holds one, the call fails with XdnsRecordAlreadyExists and the registry is
\* left as it was.
AddedByRoot(gateway_id) ==
    /\ last'.op = "add_new_xdns_record"
    /\ last'.origin = "Root"
    /\ last'.gateway_id = gateway_id

C28_AddNewXdnsRecord ==
    [][\A gateway_id \in GatewayIds :
          AddedByRoot(gateway_id) =>
              IF IsNone(XDNSRegistry[gateway_id])
              THEN /\ last'.res = "Ok"
                   /\ IsSome(XDNSRegistry'[gateway_id])
                   /\ \A other \in GatewayIds \ {gateway_id} :
                          XDNSRegistry'[other] = XDNSRegistry[other]
              ELSE /\ last'.res = "XdnsRecordAlreadyExists"
                   /\ XDNSRegistry' = XDNSRegistry]_vars

\* an add of a gateway id that is in the registry has been rejected, after
\* the add of another id succeeded
C28_Witness ==
    /\ last.op = "add_new_xdns_record"
    /\ last.res = "XdnsRecordAlreadyExists"
    /\ IsSome(XDNSRegistry[last.gateway_id])
    /\ IsSome(XDNSRegistry["test"])
    /\ last.gateway_id /= "test"

\* C29: purge_xdns_record called by root for a gateway id in the registry
\* removes that record and no other; called for an id not in the registry it
\* fails with UnknownXdnsRecord, called by a signed origin it fails with
\* BadOrigin, and in both cases the registry is left as it was.
Purged(gateway_id) ==
    /\ last'.op = "purge_xdns_record"
    /\ last'.gateway_id = gateway_id

C29_PurgeXdnsRecord ==
    [][\A gateway_id \in GatewayIds :
          Purged(gateway_id) =>
              IF last'.origin /= "Root"
              THEN last'.res = "BadOrigin" /\ XDNSRegistry' = XDNSRegistry
              ELSE IF IsNone(XDNSRegistry[gateway_id])
              THEN last'.res = "UnknownXdnsRecord" /\ XDNSRegistry' = XDNSRegistry
              ELSE /\ last'.res = "Ok"
                   /\ XDNSRegistry' = [XDNSRegistry EXCEPT ![gateway_id] = None]]_vars

\* a signed purge of a record of the registry has been rejected; the registry
\* holds two records, and gate, purged by root or never added, is not one
C29_Witness ==
    /\ last.op = "purge_xdns_record"
    /\ last.res = "BadOrigin"
    /\ IsSome(XDNSRegistry[last.gateway_id])
    /\ Cardinality({gateway_id \in GatewayIds : IsSome(XDNSRegistry[gateway_id])}) = 2
    /\ IsNone(XDNSRegistry["gate"])

\* C30: the cursor of a stored Xtx changes by +1 only, and only in an
\* operation after which every FSX of the step that was current before it is
\* confirmed; a bond and a failed operation leave the cursor as it was.
Cursor(id) == Xtx(id).steps_cnt[1]
CursorAfter(id) == Unwrap(XExecSignals'[id]).steps_cnt[1]

C30_CursorMovesOnACompletedStep ==
    [][\A id \in XtxIds :
          (Stored(id) /\ IsSome(XExecSignals'[id])) =>
              /\ \/ CursorAfter(id) = Cursor(id)
                 \/ /\ CursorAfter(id) = Cursor(id) + 1
                    /\ IsSome(FullSideEffects'[id])
                    /\ Cursor(id) + 1 <= Len(StepsAfter(id))
                    /\ \A i \in 1..Len(StepsAfter(id)[Cursor(id) + 1]) :
                           IsSome(StepsAfter(id)[Cursor(id) + 1][i].confirmed)
              /\ (last'.op = "bond_insurance_deposit" \/ last'.res /= "Ok")
                     => CursorAfter(id) = Cursor(id)]_vars

\* the cursor of an Xtx of two steps has moved from the first to the second
C30_Witness ==
    \E id \in XtxIds :
        /\ Stored(id)
        /\ Xtx(id).steps_cnt = <<1, 2>>
        /\ last = [op |-> "confirm_side_effect", res |-> "Ok"]

\* C31: every xtx id with a row in XExecSignals has a row in FullSideEffects
\* and in LocalXtxStates, and every key of ActiveXExecSignalsTimingLinks has
\* a row in XExecSignals; so the setup of the timeout sweep on a key of the
\* timing links returns a context.
C31_StoredXtxHasItsArtifacts ==
    \A id \in XtxIds :
        /\ Stored(id) => IsSome(FullSideEffects[id]) /\ IsSome(LocalXtxStates[id])
        /\ IsSome(ActiveXExecSignalsTimingLinks[id]) =>
               /\ Stored(id)
               /\ setup(Store, "RevertTimedOut", Some(id), 0, now).res = "Ok"

\* the sweep has set up and reverted a stored Xtx
C31_Witness ==
    \E id \in XtxIds :
        /\ Stored(id) /\ Xtx(id).status = "RevertTimedOut"
        /\ IsSome(FullSideEffects[id]) /\ IsSome(LocalXtxStates[id])
        /\ last = [op |-> "on_initialize", res |-> "Ok"]

\* C32: an on_initialize call reverts at most one Xtx by time out, and none
\* in a block whose number is not a multiple of XtxTimeoutCheckInterval.
RevertedByTimeOut ==
    {id \in XtxIds : /\ Stored(id) /\ Xtx(id).status /= "RevertTimedOut"
                     /\ IsSome(XExecSignals'[id])
                     /\ Unwrap(XExecSignals'[id]).status = "RevertTimedOut"}

C32_SweepRevertsOneXtxAtMost ==
    [][last'.op = "on_initialize" =>
          /\ Cardinality(RevertedByTimeOut) <= 1
          /\ now' % XtxTimeoutCheckInterval /= 0 => RevertedByTimeOut = {}]_vars

\* the sweep has reverted one Xtx and left another that has timed out
C32_Witness ==
    \E id \in XtxIds, other \in XtxIds :
        /\ last = [op |-> "on_initialize", res |-> "Ok"]
        /\ Stored(id) /\ Xtx(id).status = "RevertTimedOut"
        /\ IsNone(ActiveXExecSignalsTimingLinks[id])
        /\ Stored(other) /\ Xtx(other).status = "Ready"
        /\ IsSome(ActiveXExecSignalsTimingLinks[other])
        /\ Unwrap(ActiveXExecSignalsTimingLinks[other]) <= now

\* C33: process_signal_queue conserves the signals: the queue it writes back
\* is the queue it read less the signals it handled in this run, each of
\* them once; a signal whose setup fails stays in the queue, once.
SeqsOf(queue) == {queue[i].seq : i \in 1..Len(queue)}
HandledInStep == {handled_order'[i] : i \in (Len(handled_order) + 1)..Len(handled_order')}

Admitted == Unwrap(vsteps)
HasDeposit(insurance_deposits, sfx_id) ==
    \E i \in 1..Len(insurance_deposits) : insurance_deposits[i][1] = sfx_id

AdmittedIn == {id \in XtxIds : IsNone(XExecSignals[id]) /\ IsSome(XExecSignals'[id])}
StepZeroWithPrize(id) ==
    {StepsAfter(id)[1][j].input : j \in 1..Len(StepsAfter(id)[1])}
        \cap {se \in SideEffects : se.prize > 0}

C35_AdmissionChargesStepZero ==
    /\ [][\A id \in AdmittedIn :
              /\ last' = [op |-> "on_extrinsic_trigger", res |-> "Ok"]
              /\ \A charge_id \in ChargeIds :
                     AccountManager'[charge_id] =
                         IF charge_id \in StepZeroWithPrize(id)
                         THEN "Deposited"
                         ELSE AccountManager[charge_id]]_vars
    /\ [](\A side_effects \in ChargeBundles, fresh_id \in XtxIds :
              LET returned == on_extrinsic_trigger(Store, now, side_effects, fresh_id, FALSE)
                  admitted == on_extrinsic_trigger(Store, now, side_effects, fresh_id, TRUE)
              IN  (/\ IsNone(XExecSignals[fresh_id])
                   /\ admitted.res = "Ok"
                   /\ \E j \in 1..Len(Unwrap(admitted.st.fse[fresh_id])[1]) :
                          Unwrap(admitted.st.fse[fresh_id])[1][j].input.prize > 0)
                      => returned.res = "Err" /\ returned.st = Store)

\* a bundle of two steps is admitted, the first with a prize of zero and the
\* second with a prize: nothing is deposited
C35_Witness ==
    \E id \in XtxIds :
        /\ Stored(id)
        /\ Len(Steps(id)) = 2
        /\ Steps(id)[1][1].input = SfxD
        /\ Steps(id)[2][1].input = SfxD2
        /\ \A charge_id \in ChargeIds : AccountManager[charge_id] = "None"
        /\ last = [op |-> "on_extrinsic_trigger", res |-> "Ok"]

\* C36: a call of emit publishes NewSideEffectsAvailable if and only if the
\* batch of side effects is not empty, and first; then at most one lifecycle
\* event, the one of the status of the Xtx passed in; and SideEffectsConfirmed
\* only when that status is PendingExecution or higher and a step vector is
\* passed in.
C36_EmitPublishesByStatus ==
    LET Published == Unwrap(events)
        PublishedOf(names) == {i \in 1..Len(Published) : Published[i].event \in names}
        LifecycleEvents ==
            {"XTransactionReceivedForExec", "XTransactionReadyForExec",
             "XTransactionStepFinishedExec", "XTransactionXtxFinishedExecAllSteps",
             "XTransactionXtxRevertedAfterTimeOut"}
        LifecycleEventOf ==
            [status \in Statuses |->
                CASE status = "PendingInsurance" -> {"XTransactionReceivedForExec"}
                  [] status = "Ready" -> {"XTransactionReadyForExec"}
                  [] status = "Finished" -> {"XTransactionStepFinishedExec"}
                  [] status = "FinishedAllSteps" -> {"XTransactionXtxFinishedExecAllSteps"}
                  [] status = "RevertTimedOut" -> {"XTransactionXtxRevertedAfterTimeOut"}
                  [] OTHER -> {}]
    IN  IsSome(events) =>
        /\ PublishedOf({"NewSideEffectsAvailable"}) =
               (IF emit_args.side_effects /= <<>> THEN {1} ELSE {})
        /\ Cardinality(PublishedOf(LifecycleEvents)) <= 1
        /\ {Published[i].event : i \in PublishedOf(LifecycleEvents)} =
               (IF emit_args.maybe_xtx = <<>> THEN {}
                ELSE LifecycleEventOf[emit_args.maybe_xtx[1].status])
        /\ PublishedOf({"SideEffectsConfirmed"}) /= {} =>
               /\ emit_args.maybe_xtx /= <<>>
               /\ emit_args.maybe_xtx[1].status \in
                      {"PendingExecution", "Finished", "FinishedAllSteps", "RevertTimedOut",
                       "RevertKill", "RevertMisbehaviour", "Reverted"}
               /\ emit_args.maybe_full_side_effects /= <<>>
        /\ \A i \in PublishedOf(LifecycleEvents), j \in PublishedOf({"SideEffectsConfirmed"}) :
               i < j
        /\ Len(Published) <= 3

\* emit has published the three events: a batch, a finished Xtx and its
\* step vector
C36_Witness ==
    /\ IsSome(events)
    /\ Len(Unwrap(events)) = 3
    /\ Unwrap(events)[1].event = "NewSideEffectsAvailable"
    /\ Unwrap(events)[2].event = "XTransactionStepFinishedExec"
    /\ Unwrap(events)[3].event = "SideEffectsConfirmed"

\* C37: when confirm_side_effect returns Ok for (xtx_id, sfx), the stored
\* FullSideEffects[xtx_id] afterwards carries the confirmation on the FSX of
\* sfx, whatever the stored status of the Xtx was before the call.
C37_AcceptedConfirmationIsStored ==
    \A id \in XtxIds, side_effect \in SideEffects, confirmation \in Confirmations :
        \A returned \in {confirm_side_effect(Store, now, id, side_effect,
                                              confirmation, TRUE)} :
            returned.res = "Ok" =>
                /\ IsSome(returned.st.fse[id])
                /\ \E k \in 1..Len(Unwrap(returned.st.fse[id])) :
                      \E j \in 1..Len(Unwrap(returned.st.fse[id])[k]) :
                          /\ Unwrap(returned.st.fse[id])[k][j].input = side_effect
                          /\ Unwrap(returned.st.fse[id])[k][j].confirmed = Some(confirmation)

\* the slots of a stored step vector that are filled
Filled(steps) ==
    UNION {{<<k, j>> : j \in {j \in 1..Len(steps[k]) : IsSome(steps[k][j].confirmed)}} :
              k \in 1..Len(steps)}

\* C38: no FSX of an Xtx is stored as confirmed while an insurance deposit of
\* that Xtx is stored unbonded, and the step that stores a confirmation is
\* taken with every insurance deposit of the Xtx bonded.
C38_ConfirmedOnlyWhenBonded ==
    /\ [](\A id \in XtxIds :
            (IsSome(FullSideEffects[id]) /\ Filled(Steps(id)) /= {})
                => ~AnyUnbonded(InsuranceDeposits[id], XtxInsuranceLinks[id]))
    /\ [][\A id \in XtxIds :
            (/\ IsSome(FullSideEffects[id])
             /\ IsSome(FullSideEffects'[id])
             /\ Filled(Unwrap(FullSideEffects'[id])) \ Filled(Steps(id)) /= {})
                => /\ ~AnyUnbonded(InsuranceDeposits[id], XtxInsuranceLinks[id])
                   /\ ~AnyUnbonded(InsuranceDeposits'[id], XtxInsuranceLinks'[id])]_vars

\* C39: confirm_side_effect on a stored Xtx returns Ok or an error and never
\* indexes the step vector out of its bounds; on an Xtx whose cursor equals
\* total, or whose step vector is empty, it returns an error.
C39_ConfirmNeverIndexesOutOfBounds ==
    \A id \in XtxIds, side_effect \in SideEffects, confirmation \in Confirmations,
       portal_ok \in BOOLEAN :
        \A returned \in {confirm_side_effect(Store, now, id, side_effect,
                                              confirmation, portal_ok)} :
            Stored(id) =>
                /\ returned.res \in {"Ok", "Err"}
                /\ (\/ Xtx(id).steps_cnt[1] = Xtx(id).steps_cnt[2]
                    \/ (IsSome(FullSideEffects[id]) /\ Steps(id) = <<>>))
                       => returned.res = "Err"

\* C40: for every stored Xtx, steps_cnt.total is the number of steps of
\* FullSideEffects[xtx_id] and no stored step is empty.
C40_TotalIsTheNumberOfNonEmptySteps ==
    \A id \in XtxIds :
        (Stored(id) /\ IsSome(FullSideEffects[id])) =>
            /\ Xtx(id).steps_cnt[2] = Len(Steps(id))
            /\ \A k \in 1..Len(Steps(id)) : Steps(id)[k] /= <<>>

====
